---- MODULE Spec2Model ----
(***************************************************************************)
(* IRMemoryMap (lldb/Expression/IRMemoryMap.cpp): a map of allocations     *)
(* that live in a host shadow buffer, in the inferior process, or in both. *)
(* Addresses are unsigned words of AddrBits bits (lldb::addr_t is 64 bits  *)
(* wide; the model keeps the wrap-around of the arithmetic at a smaller    *)
(* width).  The inferior process and the target are the environment: the   *)
(* process allocates fresh spans of its own choosing, may refuse any call, *)
(* and what it answers to CanJIT() and IsAlive() is its own affair: every   *)
(* call of the map that asks may get either answer (jit).                  *)
(***************************************************************************)
EXTENDS Integers, Sequences, FiniteSets, TLC

VARIABLES
    m_allocations,  \* AllocationMap: aligned start |-> Allocation
    process_sp,     \* m_process_wp.lock() yields a process
    target_sp,      \* m_target_wp.lock() yields a target
    remote_allocs,  \* spans [addr, size] the process allocator holds
    remote_mem,     \* bytes of the inferior memory that are known
    ret,            \* the last call of the map: arguments, result, error
    written,        \* history: per allocation, the policy asked for and the bytes stored
    host_max,       \* history: greatest address a host-only Malloc returned
    mallocs,        \* history: number of Malloc calls
    writes,         \* history: number of WriteMemory calls
    dtor            \* where ~IRMemoryMap is: "idle", "loop", "done"

vars == <<m_allocations, process_sp, target_sp, remote_allocs, remote_mem,
          ret, written, host_max, mallocs, writes, dtor>>

----------------------------------------------------------------------------
(* Bounds of the model *)

AddrBits == 16          \* width of lldb::addr_t and size_t in the model
MaxMallocs == 2         \* calls of Malloc, allocation index
MaxHostMallocs == 4     \* calls of Malloc, host pseudo-heap
MaxSoloMallocs == 1     \* calls of Malloc, one allocation at a time
MaxRoundSize == 17      \* sizes asked of Malloc, size rounding
MaxWrites == 2          \* WriteMemory calls, memory operations
MaxSeekAddr == 8        \* addresses looked up, lookups by address
MaxScalarSize == 8      \* bytes of the allocation, scalars and pointers
MaxScalarWrites == 1    \* scalar and pointer writes, scalars and pointers
MaxPairAddr == 4        \* addresses used, two allocations side by side
MaxPairWrites == 1      \* WriteMemory calls, two allocations side by side

AddrSpace == 2 ^ AddrBits
\* uint32_t is half as wide as size_t, as on a 64-bit host
UINT32_MAX == 2 ^ (AddrBits \div 2) - 1
LLDB_INVALID_ADDRESS == AddrSpace - 1
PageSize == 4096

eAllocationPolicyHostOnly == "HostOnly"
eAllocationPolicyProcessOnly == "ProcessOnly"
eAllocationPolicyMirror == "Mirror"
Policies == {eAllocationPolicyHostOnly, eAllocationPolicyProcessOnly,
             eAllocationPolicyMirror}

eByteOrderInvalid == "invalid"
eByteOrderBig == "big"
eByteOrderLittle == "little"
ByteOrders == {eByteOrderBig, eByteOrderLittle}
AddressByteSizes == {4, 8}

ePermissionsReadable == 1
ePermissionsWritable == 2

(* Inputs of the specification of the allocation index *)
Sizes == {3}
Alignments == {1, 4}
Permissions == {ePermissionsReadable}
RemoteAddrs == {0, 1, 5}

(* Inputs of the specification of the memory operations *)
MemSizes == {3}
MemAlignments == {4}
MemRemoteAddrs == {1}
DataSet == {<<1>>, <<2, 1>>}
ReadSizes == {1, 2}
BufFill == 204          \* what the caller's read buffer holds before a read
Garbage == 170          \* inferior memory nobody has written
TargetByte == 7         \* static (file-backed) memory of the target

(* Inputs of the specification of the size rounding *)
RoundSizes == 0..MaxRoundSize \cup {100, AddrSpace - 1}
RoundAlignments == {1, 2, 4, 8, 16}

(* Inputs of the host pseudo-heap specification *)
SeekSizes == {1, 3}
SeekAddrs == 0..MaxSeekAddr
SeekSpans == {1, 2}
ScalarSet == {<<3>>, <<1, 2>>, <<0, 0, 1, 2>>, <<1, 2, 3, 4>>,
              <<1, 2, 3, 4, 5, 6, 7, 8>>}
ScalarSizes == {0, 1, 2, 3, 4, 8}
PointerSet == {<<0, 0, 0, 0, 222, 173, 190, 239>>, <<1, 2, 3, 4, 5, 6, 7, 8>>}
PairRemoteAddrs == {0, 1}
PairAddrs == 0..MaxPairAddr
AllocPermissions ==
    {ePermissionsReadable, ePermissionsReadable + ePermissionsWritable}
EdgeSize == 3           \* bytes of the allocation, requests at the edge
EdgeSizes == {1, 2}
EdgeAddrs == {0, 1, AddrSpace - 2}
FrameSize == 2          \* bytes per allocation and per access, frame runs
FrameAddrs == {0, FrameSize}
EntrySizes == {0, 1, 3, Garbage}
HostSizes == {100}
HostAlignments == {16}
HostPolicies == {eAllocationPolicyHostOnly, eAllocationPolicyMirror}

----------------------------------------------------------------------------
(* Unsigned arithmetic *)

Wrap(x) == x % AddrSpace

RECURSIVE BitAnd(_, _)
BitAnd(x, y) ==
    IF x = 0 \/ y = 0 THEN 0
    ELSE (x % 2) * (y % 2) + 2 * BitAnd(x \div 2, y \div 2)

BitNot(x) == AddrSpace - 1 - x

Min(S) == CHOOSE x \in S : \A y \in S : x <= y
Max(S) == CHOOSE x \in S : \A y \in S : x >= y

\* Mutation: the value is not rounded
alignTo_Unaligned(value, align) == Wrap(value)

\* llvm::alignTo(Value, Align) == (Value + Align - 1) / Align * Align
alignTo(value, align) == Wrap((Wrap(value + align - 1) \div align) * align)

----------------------------------------------------------------------------
(* The allocation index *)

Keys == DOMAIN m_allocations
End == -1               \* m_allocations.end()
Begin == IF Keys = {} THEN End ELSE Min(Keys)
LowerBound(addr) ==
    IF \E k \in Keys : k >= addr THEN Min({k \in Keys : k >= addr}) ELSE End
Prev(iter) ==
    IF iter = End THEN Max(Keys) ELSE Max({k \in Keys : k < iter})

NoCalls == <<>>
AllocFail == -1         \* the process allocator set an error

\* Mutation: the process is always asked for readable and writable memory
AllocCall_ReadWrite(zero_memory, size, permissions) ==
    [fn |-> IF zero_memory THEN "CallocateMemory" ELSE "AllocateMemory",
     addr |-> 0, size |-> size,
     perm |-> ePermissionsReadable + ePermissionsWritable]

\* Process::AllocateMemory / Process::CallocateMemory as called by the map
AllocCall(zero_memory, size, permissions) ==
    [fn |-> IF zero_memory THEN "CallocateMemory" ELSE "AllocateMemory",
     addr |-> 0, size |-> size, perm |-> permissions]
DeallocCall(addr) ==
    [fn |-> "DeallocateMemory", addr |-> addr, size |-> 0, perm |-> 0]
WriteCall(addr, size) ==
    [fn |-> "WriteMemory", addr |-> addr, size |-> size, perm |-> 0]
ReadCall(addr, size) ==
    [fn |-> "ReadMemory", addr |-> addr, size |-> size, perm |-> 0]

\* Mutation: the host search goes on from the first entry of the index
FindSpace_FromFirst(size, zero_memory, jit, resp) ==
    IF size = 0 THEN [ret |-> LLDB_INVALID_ADDRESS, calls |-> NoCalls]
    ELSE IF process_sp /\ jit THEN
        [ret |-> IF resp = AllocFail THEN LLDB_INVALID_ADDRESS ELSE resp,
         calls |-> <<AllocCall(zero_memory, size,
                        ePermissionsReadable + ePermissionsWritable)>>]
    ELSE IF Keys # {} THEN
        LET addr == Min(Keys)
            alloc_size == m_allocations[addr].m_size
        IN [ret |-> alignTo(Wrap(addr + alloc_size), PageSize), calls |-> NoCalls]
    ELSE [ret |-> 0, calls |-> NoCalls]

\* Mutation: the host search does not round up to the page
FindSpace_NoPage(size, zero_memory, jit, resp) ==
    IF size = 0 THEN [ret |-> LLDB_INVALID_ADDRESS, calls |-> NoCalls]
    ELSE IF process_sp /\ jit THEN
        [ret |-> IF resp = AllocFail THEN LLDB_INVALID_ADDRESS ELSE resp,
         calls |-> <<AllocCall(zero_memory, size,
                        ePermissionsReadable + ePermissionsWritable)>>]
    ELSE IF Keys # {} THEN
        LET addr == Max(Keys)
            alloc_size == m_allocations[addr].m_size
        IN [ret |-> Wrap(addr + alloc_size), calls |-> NoCalls]
    ELSE [ret |-> 0, calls |-> NoCalls]

\* IRMemoryMap::FindSpace: the address, and the calls made on the process
\* jit: process_sp->CanJIT() && process_sp->IsAlive()
\* Mutation: FindSpace never asks the process
FindSpace_HostHeap(size, zero_memory, jit, resp) ==
    IF size = 0 THEN [ret |-> LLDB_INVALID_ADDRESS, calls |-> NoCalls]
    ELSE IF Keys # {} THEN
        LET addr == Max(Keys)
            alloc_size == m_allocations[addr].m_size
        IN [ret |-> alignTo(Wrap(addr + alloc_size), PageSize), calls |-> NoCalls]
    ELSE [ret |-> 0, calls |-> NoCalls]

FindSpace(size, zero_memory, jit, resp) ==
    IF size = 0 THEN [ret |-> LLDB_INVALID_ADDRESS, calls |-> NoCalls]
    ELSE IF process_sp /\ jit THEN
        [ret |-> IF resp = AllocFail THEN LLDB_INVALID_ADDRESS ELSE resp,
         calls |-> <<AllocCall(zero_memory, size,
                        ePermissionsReadable + ePermissionsWritable)>>]
    ELSE IF Keys # {} THEN
        LET addr == Max(Keys)
            alloc_size == m_allocations[addr].m_size
        IN [ret |-> alignTo(Wrap(addr + alloc_size), PageSize), calls |-> NoCalls]
    ELSE [ret |-> 0, calls |-> NoCalls]

\* Mutation: the entry at or before addr is found wherever the range ends
FindAllocation_NoEndTest(addr, size) ==
    IF addr = LLDB_INVALID_ADDRESS THEN End
    ELSE LET lb == LowerBound(addr)
             back == lb = End \/ lb > addr
         IN IF back /\ lb = Begin THEN End
            ELSE LET iter == IF back THEN Prev(lb) ELSE lb
                 IN IF iter <= addr THEN iter ELSE End

\* Mutation: an entry is found if it holds the first byte of the range
FindAllocation_FirstByte(addr, size) ==
    IF addr = LLDB_INVALID_ADDRESS THEN End
    ELSE LET lb == LowerBound(addr)
             back == lb = End \/ lb > addr
         IN IF back /\ lb = Begin THEN End
            ELSE LET iter == IF back THEN Prev(lb) ELSE lb
                 IN IF iter <= addr /\ Wrap(iter + m_allocations[iter].m_size) > addr
                    THEN iter ELSE End

\* IRMemoryMap::FindAllocation: the key of the entry found, or End
FindAllocation(addr, size) ==
    IF addr = LLDB_INVALID_ADDRESS THEN End
    ELSE LET lb == LowerBound(addr)
             back == lb = End \/ lb > addr
         IN IF back /\ lb = Begin THEN End
            ELSE LET iter == IF back THEN Prev(lb) ELSE lb
                 IN IF iter <= addr /\
                       Wrap(iter + m_allocations[iter].m_size) >= Wrap(addr + size)
                    THEN iter ELSE End

\* IRMemoryMap::AllocationsIntersect
AllocationsIntersect(addr1, size1, addr2, size2) ==
    addr2 < Wrap(addr1 + size1) /\ addr1 < Wrap(addr2 + size2)

\* IRMemoryMap::IntersectsAllocation
IntersectsAllocation(addr, size) ==
    IF addr = LLDB_INVALID_ADDRESS THEN FALSE
    ELSE LET iter == LowerBound(addr)
             hit(k) == AllocationsIntersect(addr, size, m_allocations[k].m_process_start,
                                            m_allocations[k].m_size)
         IN \/ iter # End /\ hit(iter)
            \/ iter # Begin /\ hit(Prev(iter))

\* Mutation: the shadow is sized and not cleared
Allocation_NoMemset(process_alloc, process_start, size, permissions, alignment, policy) ==
    [m_process_alloc |-> process_alloc,
     m_process_start |-> process_start,
     m_size |-> size,
     m_permissions |-> permissions,
     m_alignment |-> alignment,
     m_policy |-> policy,
     m_leak |-> FALSE,
     m_data |-> IF policy = eAllocationPolicyProcessOnly THEN <<>>
                ELSE [i \in 1..size |-> Garbage]]

\* IRMemoryMap::Allocation::Allocation
Allocation(process_alloc, process_start, size, permissions, alignment, policy) ==
    [m_process_alloc |-> process_alloc,
     m_process_start |-> process_start,
     m_size |-> size,
     m_permissions |-> permissions,
     m_alignment |-> alignment,
     m_policy |-> policy,
     m_leak |-> FALSE,
     m_data |-> IF policy = eAllocationPolicyProcessOnly THEN <<>>
                ELSE [i \in 1..size |-> 0]]

----------------------------------------------------------------------------
(* Malloc *)

\* allocation_size of Malloc
AllocationSize(size, alignment) ==
    LET alignment_mask == alignment - 1
    IN IF size = 0 THEN alignment
       ELSE IF BitAnd(size, alignment_mask) # 0
            THEN BitAnd(Wrap(size + alignment), BitNot(alignment_mask))
            ELSE size

\* Mutation: the address is rounded down to the alignment
AlignedAddress_RoundsDown(allocation_address, alignment) ==
    LET mask == alignment - 1
    IN BitAnd(allocation_address, BitNot(mask))

\* aligned_address of Malloc
AlignedAddress(allocation_address, alignment) ==
    LET mask == alignment - 1
    IN BitAnd(Wrap(allocation_address + mask), BitNot(mask))

\* Mutation: a Mirror allocation made on the host keeps the policy Mirror
MallocDispatch_KeepsMirror(allocation_size, permissions, policy, zero_memory, jit, resp) ==
    LET fs == FindSpace(allocation_size, FALSE, jit, resp)
        host == [allocation_address |-> fs.ret, policy |-> policy, calls |-> fs.calls,
                 err |-> IF fs.ret = LLDB_INVALID_ADDRESS
                         THEN "AddressSpaceFull" ELSE "none"]
        remote == [allocation_address |-> IF resp = AllocFail THEN LLDB_INVALID_ADDRESS ELSE resp,
                   policy |-> policy,
                   calls |-> <<AllocCall(zero_memory, allocation_size, permissions)>>,
                   err |-> IF resp = AllocFail THEN "RemoteAllocFailed" ELSE "none"]
        fail(e) == [allocation_address |-> LLDB_INVALID_ADDRESS, policy |-> policy,
                    calls |-> NoCalls, err |-> e]
    IN IF policy = eAllocationPolicyHostOnly THEN host
       ELSE IF policy = eAllocationPolicyMirror THEN
           IF process_sp /\ jit THEN remote ELSE host
       ELSE IF policy = eAllocationPolicyProcessOnly THEN
           IF process_sp THEN IF jit THEN remote ELSE fail("RemoteUnsupported")
           ELSE fail("RemoteRequired")
       ELSE fail("InvalidPolicy")

\* Mutation: a Mirror allocation the process refuses is made on the host
MallocDispatch_DowngradesOnFailure(allocation_size, permissions, policy, zero_memory, jit, resp) ==
    LET fs == FindSpace(allocation_size, FALSE, FALSE, AllocFail)
        host(pol) == [allocation_address |-> fs.ret, policy |-> pol, calls |-> fs.calls,
                      err |-> IF fs.ret = LLDB_INVALID_ADDRESS
                              THEN "AddressSpaceFull" ELSE "none"]
        js == FindSpace(allocation_size, FALSE, jit, resp)
        search == [allocation_address |-> js.ret, policy |-> policy, calls |-> js.calls,
                   err |-> IF js.ret = LLDB_INVALID_ADDRESS
                           THEN "AddressSpaceFull" ELSE "none"]
        call == <<AllocCall(zero_memory, allocation_size, permissions)>>
        remote == [allocation_address |-> IF resp = AllocFail THEN LLDB_INVALID_ADDRESS ELSE resp,
                   policy |-> policy, calls |-> call,
                   err |-> IF resp = AllocFail THEN "RemoteAllocFailed" ELSE "none"]
        fail(e) == [allocation_address |-> LLDB_INVALID_ADDRESS, policy |-> policy,
                    calls |-> NoCalls, err |-> e]
    IN IF policy = eAllocationPolicyHostOnly THEN search
       ELSE IF policy = eAllocationPolicyMirror THEN
           IF process_sp /\ jit
           THEN IF resp = AllocFail
                THEN [host(eAllocationPolicyHostOnly) EXCEPT !.calls = call]
                ELSE remote
           ELSE host(eAllocationPolicyHostOnly)
       ELSE IF policy = eAllocationPolicyProcessOnly THEN
           IF process_sp THEN IF jit THEN remote ELSE fail("RemoteUnsupported")
           ELSE fail("RemoteRequired")
       ELSE fail("InvalidPolicy")

\* Mutation: a ProcessOnly allocation falls back to the host when the
\* process cannot allocate
MallocDispatch_FallsBack(allocation_size, permissions, policy, zero_memory, jit, resp) ==
    LET fs == FindSpace(allocation_size, FALSE, jit, resp)
        host(pol) == [allocation_address |-> fs.ret, policy |-> pol, calls |-> fs.calls,
                      err |-> IF fs.ret = LLDB_INVALID_ADDRESS
                              THEN "AddressSpaceFull" ELSE "none"]
        remote == [allocation_address |-> IF resp = AllocFail THEN LLDB_INVALID_ADDRESS ELSE resp,
                   policy |-> policy,
                   calls |-> <<AllocCall(zero_memory, allocation_size, permissions)>>,
                   err |-> IF resp = AllocFail THEN "RemoteAllocFailed" ELSE "none"]
        fail(e) == [allocation_address |-> LLDB_INVALID_ADDRESS, policy |-> policy,
                    calls |-> NoCalls, err |-> e]
    IN IF policy = eAllocationPolicyHostOnly THEN host(policy)
       ELSE IF policy = eAllocationPolicyMirror THEN
           IF process_sp /\ jit THEN remote ELSE host(eAllocationPolicyHostOnly)
       ELSE IF policy = eAllocationPolicyProcessOnly THEN
           IF process_sp /\ jit THEN remote ELSE host(eAllocationPolicyHostOnly)
       ELSE fail("InvalidPolicy")

\* The switch on the policy in Malloc: the address obtained, the policy
\* stored, the error set, and the calls made on the process.
MallocDispatch(allocation_size, permissions, policy, zero_memory, jit, resp) ==
    IF policy = eAllocationPolicyHostOnly THEN
        LET fs == FindSpace(allocation_size, FALSE, jit, resp)
        IN [allocation_address |-> fs.ret, policy |-> policy, calls |-> fs.calls,
            err |-> IF fs.ret = LLDB_INVALID_ADDRESS
                    THEN "AddressSpaceFull" ELSE "none"]
    ELSE IF policy = eAllocationPolicyMirror THEN
        IF process_sp /\ jit THEN
            [allocation_address |-> IF resp = AllocFail THEN LLDB_INVALID_ADDRESS ELSE resp,
             policy |-> policy,
             calls |-> <<AllocCall(zero_memory, allocation_size, permissions)>>,
             err |-> IF resp = AllocFail THEN "RemoteAllocFailed" ELSE "none"]
        ELSE
            LET fs == FindSpace(allocation_size, FALSE, jit, resp)
            IN [allocation_address |-> fs.ret,
                policy |-> eAllocationPolicyHostOnly, calls |-> fs.calls,
                err |-> IF fs.ret = LLDB_INVALID_ADDRESS
                        THEN "AddressSpaceFull" ELSE "none"]
    ELSE IF policy = eAllocationPolicyProcessOnly THEN
        IF process_sp THEN
            IF jit THEN
                [allocation_address |-> IF resp = AllocFail THEN LLDB_INVALID_ADDRESS ELSE resp,
                 policy |-> policy,
                 calls |-> <<AllocCall(zero_memory, allocation_size, permissions)>>,
                 err |-> IF resp = AllocFail THEN "RemoteAllocFailed" ELSE "none"]
            ELSE [allocation_address |-> LLDB_INVALID_ADDRESS, policy |-> policy,
                  calls |-> NoCalls, err |-> "RemoteUnsupported"]
        ELSE [allocation_address |-> LLDB_INVALID_ADDRESS, policy |-> policy,
              calls |-> NoCalls, err |-> "RemoteRequired"]
    ELSE [allocation_address |-> LLDB_INVALID_ADDRESS, policy |-> policy,
          calls |-> NoCalls, err |-> "InvalidPolicy"]

\* m_allocations[aligned_address] = Allocation(...)
Insert(map, key, rec) ==
    [k \in DOMAIN map \cup {key} |-> IF k = key THEN rec ELSE map[k]]

\* Mutation: the entries before the one found are erased with it
Erase_UpTo(map, key) == [k \in {j \in DOMAIN map : j > key} |-> map[k]]

\* m_allocations.erase(iter)
Erase(map, key) == [k \in DOMAIN map \ {key} |-> map[k]]

----------------------------------------------------------------------------
(* The inferior process *)

SpansIntersect(a1, s1, a2, s2) == a2 < a1 + s1 /\ a1 < a2 + s2

\* What Process::AllocateMemory may answer: an error, or a fresh span
AllocResponses(size) ==
    {AllocFail} \cup
    {a \in RemoteAddrs :
        \A s \in remote_allocs : ~SpansIntersect(a, size, s.addr, s.size)}

Range(addr, size) == {Wrap(addr + i) : i \in 0..(size - 1)}

\* Process::ReadMemory
RemoteRead(addr, size) ==
    [i \in 1..size |->
        LET a == Wrap(addr + i - 1)
        IN IF a \in DOMAIN remote_mem THEN remote_mem[a] ELSE Garbage]

\* Process::WriteMemory
RemoteWrite(addr, bytes) ==
    [a \in DOMAIN remote_mem \cup Range(addr, Len(bytes)) |->
        IF \E i \in 1..Len(bytes) : Wrap(addr + i - 1) = a
        THEN bytes[CHOOSE i \in 1..Len(bytes) : Wrap(addr + i - 1) = a]
        ELSE remote_mem[a]]

\* Process::DeallocateMemory
RemoteDealloc(addr) == {s \in remote_allocs : s.addr # addr}

\* The effect on the process of the calls an operation made
AfterAlloc(calls, resp) ==
    IF calls = NoCalls \/ resp = AllocFail THEN remote_allocs
    ELSE remote_allocs \cup {[addr |-> resp, size |-> calls[1].size]}

----------------------------------------------------------------------------
(* The operations of the map *)

NoData == <<>>

Result(op, addr, size, data, res, err, calls) ==
    [op |-> op, addr |-> addr, size |-> size, alignment |-> 0, perm |-> 0,
     policy |-> "", zero |-> FALSE, jit |-> FALSE, data |-> data, res |-> res, err |-> err,
     calls |-> calls, order |-> "", width |-> 0, scalar |-> <<>>]

\* history: no byte of a new allocation has been written
Fresh(size) == [i \in 1..size |-> <<>>]

\* IRMemoryMap::Malloc
Malloc(size, alignment, permissions, policy, zero_memory, jit, resp) ==
    LET allocation_size == AllocationSize(size, alignment)
        d == MallocDispatch(allocation_size, permissions, policy, zero_memory, jit, resp)
        aligned_address == AlignedAddress(d.allocation_address, alignment)
        ok == d.err = "none"
    IN /\ jit => process_sp
       /\ resp \in (IF jit THEN AllocResponses(allocation_size) ELSE {AllocFail})
       /\ m_allocations' =
            IF ok THEN Insert(m_allocations, aligned_address,
                              Allocation(d.allocation_address, aligned_address,
                                         allocation_size, permissions, alignment,
                                         d.policy))
            ELSE m_allocations
       /\ remote_allocs' = AfterAlloc(d.calls, resp)
       /\ ret' = [Result("Malloc", 0, size, NoData,
                         IF ok THEN aligned_address ELSE LLDB_INVALID_ADDRESS,
                         d.err, d.calls)
                  EXCEPT !.alignment = alignment, !.perm = permissions,
                         !.policy = policy, !.zero = zero_memory, !.jit = jit]
       /\ written' = IF ok THEN Insert(written, aligned_address,
                                       [asked |-> policy,
                                        bytes |-> Fresh(allocation_size)])
                     ELSE written
       /\ host_max' = IF ok /\ d.policy = eAllocationPolicyHostOnly /\
                         aligned_address > host_max
                      THEN aligned_address ELSE host_max
       /\ mallocs' = mallocs + 1
       /\ UNCHANGED <<process_sp, target_sp, remote_mem, writes, dtor>>

\* IRMemoryMap::FindSpace, called on its own
FindSpaceCall(size, zero_memory, jit, resp) ==
    LET fs == FindSpace(size, zero_memory, jit, resp)
    IN /\ jit => process_sp
       /\ resp \in (IF jit /\ size # 0 THEN AllocResponses(size) ELSE {AllocFail})
       /\ remote_allocs' = AfterAlloc(fs.calls, resp)
       /\ ret' = [Result("FindSpace", 0, size, NoData, fs.ret, "none", fs.calls)
                  EXCEPT !.zero = zero_memory, !.jit = jit]
       /\ UNCHANGED <<m_allocations, process_sp, target_sp, remote_mem, written,
                      host_max, mallocs, writes, dtor>>

\* IRMemoryMap::Leak
Leak(process_address) ==
    /\ IF process_address \in Keys
       THEN /\ m_allocations' = [m_allocations EXCEPT ![process_address].m_leak = TRUE]
            /\ ret' = Result("Leak", process_address, 0, NoData, 0, "none", NoCalls)
       ELSE /\ UNCHANGED m_allocations
            /\ ret' = Result("Leak", process_address, 0, NoData, 0, "NotFound", NoCalls)
    /\ UNCHANGED <<process_sp, target_sp, remote_allocs, remote_mem, written,
                   host_max, mallocs, writes, dtor>>

\* Mutation: the process is asked to deallocate the aligned start
FreeCalls_AlignedStart(allocation, jit) ==
    IF allocation.m_policy = eAllocationPolicyHostOnly
    THEN IF process_sp /\ jit
         THEN <<DeallocCall(allocation.m_process_start)>> ELSE NoCalls
    ELSE IF process_sp THEN <<DeallocCall(allocation.m_process_start)>> ELSE NoCalls

\* Mutation: a HostOnly allocation is deallocated whenever there is a process
FreeCalls_HostAlways(allocation, jit) ==
    IF process_sp THEN <<DeallocCall(allocation.m_process_alloc)>> ELSE NoCalls

\* Mutation: a leaked allocation is not given back to the process
FreeCalls_SkipsLeaked(allocation, jit) ==
    IF allocation.m_leak THEN NoCalls
    ELSE IF allocation.m_policy = eAllocationPolicyHostOnly
    THEN IF process_sp /\ jit
         THEN <<DeallocCall(allocation.m_process_alloc)>> ELSE NoCalls
    ELSE IF process_sp THEN <<DeallocCall(allocation.m_process_alloc)>> ELSE NoCalls

\* The calls IRMemoryMap::Free makes on the process for an allocation
FreeCalls(allocation, jit) ==
    IF allocation.m_policy = eAllocationPolicyHostOnly
    THEN IF process_sp /\ jit
         THEN <<DeallocCall(allocation.m_process_alloc)>> ELSE NoCalls
    ELSE IF process_sp THEN <<DeallocCall(allocation.m_process_alloc)>> ELSE NoCalls

\* IRMemoryMap::Free
Free(process_address, jit) ==
    /\ jit => /\ process_sp
              /\ process_address \in Keys
              /\ m_allocations[process_address].m_policy = eAllocationPolicyHostOnly
    /\ IF process_address \in Keys
       THEN LET calls == FreeCalls(m_allocations[process_address], jit)
            IN /\ m_allocations' = Erase(m_allocations, process_address)
               /\ written' = Erase(written, process_address)
               /\ remote_allocs' = IF calls = NoCalls THEN remote_allocs
                                   ELSE RemoteDealloc(calls[1].addr)
               /\ ret' = [Result("Free", process_address, 0, NoData, 0, "none", calls)
                          EXCEPT !.jit = jit]
       ELSE /\ UNCHANGED <<m_allocations, written, remote_allocs>>
            /\ ret' = Result("Free", process_address, 0, NoData, 0, "NotFound", NoCalls)
    /\ UNCHANGED <<process_sp, target_sp, remote_mem, host_max, mallocs, writes, dtor>>

\* IRMemoryMap::GetAllocSize; size is read before it is written: whether
\* the call succeeded, and size afterwards
GetAllocSize(address, size) ==
    LET iter == FindAllocation(address, size)
    IN IF iter = End THEN [ok |-> FALSE, size |-> size]
       ELSE LET al == m_allocations[iter]
            IN IF address > Wrap(al.m_process_start + al.m_size)
               THEN [ok |-> FALSE, size |-> 0]
               ELSE IF address > al.m_process_start
               THEN [ok |-> TRUE, size |-> al.m_size - (address - al.m_process_start)]
               ELSE [ok |-> TRUE, size |-> al.m_size]

\* A call of IRMemoryMap::GetAllocSize; size: what the caller's variable held
GetAllocSizeCall(address, size) ==
    LET g == GetAllocSize(address, size)
    IN /\ ret' = Result("GetAllocSize", address, size, NoData, g.size,
                        IF g.ok THEN "none" ELSE "NotFound", NoCalls)
       /\ UNCHANGED <<m_allocations, process_sp, target_sp, remote_allocs, remote_mem,
                      written, host_max, mallocs, writes, dtor>>

\* IRMemoryMap::GetByteOrder; answer: the byte order of the process or,
\* failing that, of the architecture of the target
GetByteOrder(answer) ==
    IF process_sp THEN answer
    ELSE IF target_sp THEN answer
    ELSE eByteOrderInvalid

\* IRMemoryMap::GetAddressByteSize; answer: as for GetByteOrder
GetAddressByteSize(answer) ==
    IF process_sp THEN answer
    ELSE IF target_sp THEN answer
    ELSE UINT32_MAX

\* Mutation: the bytes are copied to the start of the shadow
CopyIn_AtStart(m_data, offset, bytes) ==
    [i \in 1..Len(m_data) |-> IF i <= Len(bytes) THEN bytes[i] ELSE m_data[i]]

\* ::memcpy (allocation.m_data.GetBytes() + offset, bytes, size)
CopyIn(m_data, offset, bytes) ==
    [i \in 1..Len(m_data) |->
        IF i > offset /\ i <= offset + Len(bytes) THEN bytes[i - offset]
        ELSE m_data[i]]

\* Mutation: the bytes are copied from the start of the shadow
CopyOut_FromStart(m_data, offset, size) == [i \in 1..size |-> m_data[i]]

\* ::memcpy (bytes, allocation.m_data.GetBytes() + offset, size)
CopyOut(m_data, offset, size) == [i \in 1..size |-> m_data[offset + i]]

\* A ::memcpy at offset for size bytes that leaves the shadow of allocation
Overrun(allocation, process_address, size) ==
    /\ allocation.m_policy \in {eAllocationPolicyHostOnly, eAllocationPolicyMirror}
    /\ Len(allocation.m_data) # 0
    /\ Wrap(process_address - allocation.m_process_start) + size
         > Len(allocation.m_data)

\* A ::memcpy outside the shadow is undefined: the call faults, or the bytes
\* outside go astray and the call goes on
Faults(allocation, process_address, size) ==
    IF Overrun(allocation, process_address, size) THEN BOOLEAN ELSE {FALSE}

\* The size bytes an extractor set to m_data.GetBytes() + offset shows: those
\* past the end of the shadow are none of the map's, and read as stray
Window(m_data, offset, size, stray) ==
    [i \in 1..size |-> IF offset + i <= Len(m_data) THEN m_data[offset + i]
                       ELSE stray]

\* What a byte outside the shadow may read as
StrayBytes == {0, Garbage}

\* The DataExtractor the caller hands to GetMemoryData
CallerView == [data |-> <<BufFill>>, order |-> "caller", width |-> 0]

\* DataExtractor(bytes, size, GetByteOrder(), GetAddressByteSize())
DataExtractor(bytes, order, width) ==
    [data |-> bytes, order |-> GetByteOrder(order), width |-> GetAddressByteSize(width)]

\* Mutation: a Mirror allocation with no process gives a view of its shadow
ViewDispatch_ShadowView(allocation, process_address, size, rok, order, width, stray) ==
    LET offset == Wrap(process_address - allocation.m_process_start)
    IN IF allocation.m_policy = eAllocationPolicyProcessOnly
       THEN [view |-> CallerView, m_data |-> allocation.m_data,
             err |-> "HostUnavailable", calls |-> NoCalls]
       ELSE [view |-> DataExtractor(Window(allocation.m_data, offset, size, stray),
                                    order, width),
             m_data |-> allocation.m_data, err |-> "none", calls |-> NoCalls]

\* The switch on the policy in GetMemoryData, for the allocation found: the
\* caller's extractor and the shadow afterwards, the error, the calls made
ViewDispatch_AlwaysRefresh(allocation, process_address, size, rok, order, width, stray) ==
    LET offset == Wrap(process_address - allocation.m_process_start)
        len == Len(allocation.m_data)
        fresh == RemoteRead(allocation.m_process_start, len)
    IN [view |-> DataExtractor(Window(fresh, offset, size, stray), order, width),
        m_data |-> fresh, err |-> "none",
        calls |-> <<ReadCall(allocation.m_process_start, len)>>]

ViewDispatch(allocation, process_address, size, rok, order, width, stray) ==
    LET offset == Wrap(process_address - allocation.m_process_start)
        keep(e) == [view |-> CallerView, m_data |-> allocation.m_data,
                    err |-> e, calls |-> NoCalls]
        len == Len(allocation.m_data)
    IN IF allocation.m_policy = eAllocationPolicyProcessOnly
       THEN keep("HostUnavailable")
       ELSE IF allocation.m_policy = eAllocationPolicyMirror THEN
           IF len = 0 THEN keep("EmptyShadow")
           ELSE IF process_sp THEN
               IF rok
               THEN LET fresh == RemoteRead(allocation.m_process_start, len)
                    IN [view |-> DataExtractor(Window(fresh, offset, size, stray),
                                               order, width),
                        m_data |-> fresh, err |-> "none",
                        calls |-> <<ReadCall(allocation.m_process_start, len)>>]
               ELSE [view |-> CallerView, m_data |-> allocation.m_data,
                     err |-> "RemoteReadFailed",
                     calls |-> <<ReadCall(allocation.m_process_start, len)>>]
           ELSE keep("none")
       ELSE IF allocation.m_policy = eAllocationPolicyHostOnly THEN
           IF len = 0 THEN keep("EmptyShadow")
           ELSE [view |-> DataExtractor(Window(allocation.m_data, offset, size, stray),
                                        order, width),
                 m_data |-> allocation.m_data, err |-> "none", calls |-> NoCalls]
       ELSE keep("InvalidPolicy")

\* IRMemoryMap::GetMemoryData; rok: the process carries out the read;
\* order, width: what the process or the target answers
GetMemoryData(process_address, size, rok, order, width) ==
    LET iter == FindAllocation(process_address, size)
    IN \E stray \in (IF size > 0 /\ iter # End /\
                        Overrun(m_allocations[iter], process_address, size)
                     THEN StrayBytes ELSE {0}) :
       LET
        d == IF size = 0
             THEN [view |-> CallerView, err |-> "ZeroSize", calls |-> NoCalls]
             ELSE IF iter = End
             THEN [view |-> CallerView, err |-> "NotFound", calls |-> NoCalls]
             ELSE ViewDispatch(m_allocations[iter], process_address, size, rok,
                               order, width, stray)
       IN
       /\ (rok \/ d.calls # NoCalls)
       /\ m_allocations' = IF size > 0 /\ iter # End
                           THEN [m_allocations EXCEPT ![iter].m_data = d.m_data]
                           ELSE m_allocations
       /\ ret' = [Result("GetMemoryData", process_address, size, d.view.data, 0,
                         d.err, d.calls)
                  EXCEPT !.order = d.view.order, !.width = d.view.width]
       /\ UNCHANGED <<process_sp, target_sp, remote_allocs, remote_mem, written,
                      host_max, mallocs, writes, dtor>>

\* history: the bytes a WriteMemory at process_address leaves in allocation key
Note(old, key, process_address, bytes) ==
    [i \in 1..Len(old) |->
        IF \E j \in 1..Len(bytes) : process_address + j = key + i
        THEN <<bytes[CHOOSE j \in 1..Len(bytes) : process_address + j = key + i]>>
        ELSE old[i]]

\* Mutation: a Mirror allocation keeps its shadow when the process refuses
\* the write
WriteDispatch_Atomic(allocation, process_address, bytes, rok) ==
    LET offset == Wrap(process_address - allocation.m_process_start)
        size == Len(bytes)
    IN IF allocation.m_policy = eAllocationPolicyProcessOnly
       THEN [m_data |-> allocation.m_data,
             err |-> IF process_sp /\ ~rok THEN "RemoteWriteFailed" ELSE "none",
             calls |-> IF process_sp THEN <<WriteCall(process_address, size)>>
                       ELSE NoCalls]
       ELSE IF Len(allocation.m_data) = 0
       THEN [m_data |-> allocation.m_data, err |-> "EmptyShadow", calls |-> NoCalls]
       ELSE IF allocation.m_policy = eAllocationPolicyMirror /\ process_sp
       THEN [m_data |-> IF rok THEN CopyIn(allocation.m_data, offset, bytes)
                        ELSE allocation.m_data,
             err |-> IF rok THEN "none" ELSE "RemoteWriteFailed",
             calls |-> <<WriteCall(process_address, size)>>]
       ELSE [m_data |-> CopyIn(allocation.m_data, offset, bytes),
             err |-> "none", calls |-> NoCalls]

\* Mutation: a Mirror allocation with a process is written in the process only
WriteDispatch_MirrorRemoteOnly(allocation, process_address, bytes, rok) ==
    LET offset == Wrap(process_address - allocation.m_process_start)
        size == Len(bytes)
        rerr == IF rok THEN "none" ELSE "RemoteWriteFailed"
    IN IF process_sp /\ allocation.m_policy # eAllocationPolicyHostOnly
       THEN [m_data |-> allocation.m_data, err |-> rerr,
             calls |-> <<WriteCall(process_address, size)>>]
       ELSE IF allocation.m_policy = eAllocationPolicyProcessOnly
       THEN [m_data |-> allocation.m_data, err |-> "none", calls |-> NoCalls]
       ELSE [m_data |-> CopyIn(allocation.m_data, offset, bytes),
             err |-> "none", calls |-> NoCalls]

\* The switch on the policy in WriteMemory, for the allocation found:
\* the shadow afterwards, the error, and the calls made on the process.
WriteDispatch(allocation, process_address, bytes, rok) ==
    LET offset == Wrap(process_address - allocation.m_process_start)
        size == Len(bytes)
        rerr == IF rok THEN "none" ELSE "RemoteWriteFailed"
    IN IF allocation.m_policy = eAllocationPolicyHostOnly THEN
           IF Len(allocation.m_data) = 0
           THEN [m_data |-> allocation.m_data, err |-> "EmptyShadow", calls |-> NoCalls]
           ELSE [m_data |-> CopyIn(allocation.m_data, offset, bytes),
                 err |-> "none", calls |-> NoCalls]
       ELSE IF allocation.m_policy = eAllocationPolicyMirror THEN
           IF Len(allocation.m_data) = 0
           THEN [m_data |-> allocation.m_data, err |-> "EmptyShadow", calls |-> NoCalls]
           ELSE IF process_sp
           THEN [m_data |-> CopyIn(allocation.m_data, offset, bytes),
                 err |-> rerr, calls |-> <<WriteCall(process_address, size)>>]
           ELSE [m_data |-> CopyIn(allocation.m_data, offset, bytes),
                 err |-> "none", calls |-> NoCalls]
       ELSE IF allocation.m_policy = eAllocationPolicyProcessOnly THEN
           IF process_sp
           THEN [m_data |-> allocation.m_data, err |-> rerr,
                 calls |-> <<WriteCall(process_address, size)>>]
           ELSE [m_data |-> allocation.m_data, err |-> "none", calls |-> NoCalls]
       ELSE [m_data |-> allocation.m_data, err |-> "InvalidPolicy", calls |-> NoCalls]

NoNote == [scalar |-> <<>>, order |-> "", width |-> 0]

\* IRMemoryMap::WriteMemory; rok: the process carries out the write it is asked;
\* op, note: the caller, and the scalar it encoded, in which byte order and width
WriteMemoryOp(op, note, process_address, bytes, rok) ==
    LET size == Len(bytes)
        Done(err, calls) ==
            [Result(op, process_address, size, bytes, 0, err, calls)
             EXCEPT !.scalar = note.scalar, !.order = note.order,
                    !.width = note.width]
        iter == FindAllocation(process_address, size)
    IN /\ (rok \/ process_sp)
       /\ IF iter = End
          THEN /\ UNCHANGED <<m_allocations, written>>
               /\ IF process_sp
                  THEN /\ remote_mem' = IF rok THEN RemoteWrite(process_address, bytes)
                                        ELSE remote_mem
                       /\ ret' = Done(IF rok THEN "none" ELSE "RemoteWriteFailed",
                                      <<WriteCall(process_address, size)>>)
                  ELSE /\ UNCHANGED remote_mem
                       /\ ret' = Done("OutOfRange", NoCalls)
          ELSE LET d == WriteDispatch(m_allocations[iter], process_address, bytes, rok)
               IN \E fault \in Faults(m_allocations[iter], process_address, size) :
                  IF fault
                  THEN /\ rok
                       /\ UNCHANGED <<m_allocations, remote_mem, written>>
                       /\ ret' = Done("Fault", NoCalls)
                  ELSE
                  /\ (rok \/ d.calls # NoCalls)
                  /\ m_allocations' = [m_allocations EXCEPT ![iter].m_data = d.m_data]
                  /\ remote_mem' = IF d.calls # NoCalls /\ rok
                                   THEN RemoteWrite(process_address, bytes)
                                   ELSE remote_mem
                  /\ written' = IF d.err = "none"
                                THEN [written EXCEPT ![iter].bytes =
                                        Note(@, iter, process_address, bytes)]
                                ELSE written
                  /\ ret' = Done(d.err, d.calls)
       /\ writes' = writes + 1
       /\ UNCHANGED <<process_sp, target_sp, remote_allocs, host_max, mallocs, dtor>>

\* IRMemoryMap::WriteMemory called from outside the map
WriteMemory(process_address, bytes, rok) ==
    WriteMemoryOp("WriteMemory", NoNote, process_address, bytes, rok)

\* The caller's buffer before ReadMemory
Buffer(size) == [i \in 1..size |-> BufFill]

\* Target::ReadMemory of static memory
TargetRead(size) == [i \in 1..size |-> TargetByte]

\* Mutation: with no process, a ProcessOnly allocation is read from the target
ReadDispatch_AsksTarget(allocation, process_address, size, rok) ==
    IF allocation.m_policy = eAllocationPolicyProcessOnly /\ ~process_sp /\ target_sp
    THEN [data |-> TargetRead(size), err |-> "none", calls |-> NoCalls]
    ELSE IF allocation.m_policy = eAllocationPolicyProcessOnly /\ ~process_sp
    THEN [data |-> [i \in 1..size |-> BufFill], err |-> "none", calls |-> NoCalls]
    ELSE IF allocation.m_policy = eAllocationPolicyProcessOnly
    THEN IF rok
         THEN [data |-> RemoteRead(process_address, size), err |-> "none",
               calls |-> <<ReadCall(process_address, size)>>]
         ELSE [data |-> [i \in 1..size |-> BufFill], err |-> "RemoteReadFailed",
               calls |-> <<ReadCall(process_address, size)>>]
    ELSE [data |-> CopyOut(allocation.m_data,
                           Wrap(process_address - allocation.m_process_start), size),
          err |-> "none", calls |-> NoCalls]

\* ReadMemory when an allocation was found: the caller's buffer
\* afterwards, the error, and the calls made on the process.
ReadDispatch(allocation, process_address, size, rok) ==
    LET offset == Wrap(process_address - allocation.m_process_start)
        remote == IF rok
                  THEN [data |-> RemoteRead(process_address, size), err |-> "none",
                        calls |-> <<ReadCall(process_address, size)>>]
                  ELSE [data |-> Buffer(size), err |-> "RemoteReadFailed",
                        calls |-> <<ReadCall(process_address, size)>>]
        fail(e) == [data |-> Buffer(size), err |-> e, calls |-> NoCalls]
    IN IF offset > allocation.m_size THEN fail("OutOfRange")
       ELSE IF allocation.m_policy = eAllocationPolicyHostOnly THEN
           IF Len(allocation.m_data) = 0 THEN fail("EmptyShadow")
           ELSE IF Len(allocation.m_data) < Wrap(offset + size) THEN fail("ShortShadow")
           ELSE [data |-> CopyOut(allocation.m_data, offset, size), err |-> "none",
                 calls |-> NoCalls]
       ELSE IF allocation.m_policy = eAllocationPolicyMirror THEN
           IF process_sp THEN remote
           ELSE IF Len(allocation.m_data) = 0 THEN fail("EmptyShadow")
           ELSE [data |-> CopyOut(allocation.m_data, offset, size), err |-> "none",
                 calls |-> NoCalls]
       ELSE IF allocation.m_policy = eAllocationPolicyProcessOnly THEN
           IF process_sp THEN remote
           ELSE [data |-> Buffer(size), err |-> "none", calls |-> NoCalls]
       ELSE fail("InvalidPolicy")

\* ReadMemory when no allocation contains the range
ReadOutside(process_address, size, rok) ==
    IF process_sp THEN
        IF rok
        THEN [data |-> RemoteRead(process_address, size), err |-> "none",
              calls |-> <<ReadCall(process_address, size)>>]
        ELSE [data |-> Buffer(size), err |-> "RemoteReadFailed",
              calls |-> <<ReadCall(process_address, size)>>]
    ELSE IF target_sp THEN
        IF rok THEN [data |-> TargetRead(size), err |-> "none", calls |-> NoCalls]
        ELSE [data |-> Buffer(size), err |-> "TargetReadFailed", calls |-> NoCalls]
    ELSE [data |-> Buffer(size), err |-> "OutOfRange", calls |-> NoCalls]

\* The body of IRMemoryMap::ReadMemory: the caller's buffer afterwards, the
\* error, the calls made
ReadOutcome(process_address, size, rok) ==
    LET iter == FindAllocation(process_address, size)
    IN IF iter = End THEN ReadOutside(process_address, size, rok)
       ELSE ReadDispatch(m_allocations[iter], process_address, size, rok)

\* IRMemoryMap::ReadMemory; rok: the process (or target) carries out the read
ReadMemory(process_address, size, rok) ==
    LET d == ReadOutcome(process_address, size, rok)
    IN /\ (rok \/ d.err \in {"RemoteReadFailed", "TargetReadFailed"})
       /\ ret' = Result("ReadMemory", process_address, size, d.data, 0, d.err, d.calls)
       /\ UNCHANGED <<m_allocations, process_sp, target_sp, remote_allocs,
                      remote_mem, written, host_max, mallocs, writes, dtor>>

----------------------------------------------------------------------------
(* Scalars and pointers. A Scalar is its bytes, the most significant first;
   Scalar::GetByteSize is their number. *)

Reverse(seq) == [i \in 1..Len(seq) |-> seq[Len(seq) + 1 - i]]

\* The value of digits in n bytes, n at least their number
ZeroExtend(digits, n) ==
    [i \in 1..n |-> IF i <= n - Len(digits) THEN 0 ELSE digits[i - (n - Len(digits))]]

\* The n least significant bytes of a value
LowBytes(digits, n) ==
    IF n >= Len(digits) THEN ZeroExtend(digits, n)
    ELSE [i \in 1..n |-> digits[Len(digits) - n + i]]

\* Scalar::GetAsMemoryData: the bytes put in buf; none if the byte order is
\* not one to encode in
GetAsMemoryData(scalar, size, order) ==
    IF order \notin ByteOrders THEN <<>>
    ELSE IF order = eByteOrderBig THEN LowBytes(scalar, size)
    ELSE Reverse(LowBytes(scalar, size))

\* DataExtractor::GetU8, GetU16, GetU32, GetU64 at offset 0
GetU(bytes, order) == IF order = eByteOrderLittle THEN Reverse(bytes) ELSE bytes

\* DataBufferHeap buf(size, 0): the bytes a read left alone are zeros
ZeroFilled(data) == [i \in 1..Len(data) |-> IF data[i] = BufFill THEN 0 ELSE data[i]]

\* Mutation: the scalar is always encoded with the most significant byte first
WriteScalarOp_BigEndian(op, process_address, scalar, size, rok, order, width) ==
    LET size1 == IF size = UINT32_MAX THEN Len(scalar) ELSE size
    IN /\ size1 > 0
       /\ WriteMemoryOp(op, [scalar |-> scalar, order |-> GetByteOrder(order),
                             width |-> width],
                        process_address, LowBytes(scalar, size1), rok)

\* IRMemoryMap::WriteScalarToMemory, also as called by WritePointerToMemory
WriteScalarOp(op, process_address, scalar, size, rok, order, width) ==
    LET size1 == IF size = UINT32_MAX THEN Len(scalar) ELSE size
        eff == GetByteOrder(order)
        buf == IF size1 > 0 THEN GetAsMemoryData(scalar, size1, eff) ELSE <<>>
        note == [scalar |-> scalar, order |-> eff, width |-> width]
    IN IF Len(buf) > 0
       THEN WriteMemoryOp(op, note, process_address, buf, rok)
       ELSE /\ rok
            /\ ret' = [Result(op, process_address, size1, NoData, 0,
                              IF size1 > 0 THEN "EncodeFailed" ELSE "ZeroSize", NoCalls)
                       EXCEPT !.scalar = scalar, !.order = eff, !.width = width]
            /\ UNCHANGED <<m_allocations, process_sp, target_sp, remote_allocs,
                           remote_mem, written, host_max, mallocs, writes, dtor>>

WriteScalarToMemory(process_address, scalar, size, rok, order) ==
    WriteScalarOp("WriteScalarToMemory", process_address, scalar, size, rok, order, 0)

\* Mutation: a pointer is written in the eight bytes of its scalar
WritePointerToMemory_NaturalSize(process_address, address, rok, order, width) ==
    WriteScalarOp("WritePointerToMemory", process_address, address,
                  UINT32_MAX, rok, order, GetAddressByteSize(width))

\* IRMemoryMap::WritePointerToMemory; address: the eight bytes of Scalar(address)
WritePointerToMemory(process_address, address, rok, order, width) ==
    WriteScalarOp("WritePointerToMemory", process_address, address,
                  GetAddressByteSize(width), rok, order, GetAddressByteSize(width))

\* IRMemoryMap::ReadScalarFromMemory, also as called by ReadPointerFromMemory:
\* ret.scalar is the scalar afterwards, none if it was not assigned. An
\* extractor without a valid byte order decodes in an order of its own
ReadScalarOp(op, process_address, size, rok, order, width) ==
    LET eff == GetByteOrder(order)
        d == IF size > 0 THEN ReadOutcome(process_address, size, rok)
             ELSE [data |-> NoData, err |-> "ZeroSize", calls |-> NoCalls]
        buf == ZeroFilled(d.data)
        err == IF d.err # "none" THEN d.err
               ELSE IF size \notin {1, 2, 4, 8} THEN "UnsupportedSize"
               ELSE "none"
    IN /\ (rok \/ d.err \in {"RemoteReadFailed", "TargetReadFailed"})
       /\ ret' = [Result(op, process_address, size, buf, 0, err, d.calls)
                  EXCEPT !.scalar = IF err = "none"
                                    THEN GetU(buf, IF eff = eByteOrderInvalid
                                                   THEN order ELSE eff)
                                    ELSE <<>>,
                         !.order = eff, !.width = width]
       /\ UNCHANGED <<m_allocations, process_sp, target_sp, remote_allocs,
                      remote_mem, written, host_max, mallocs, writes, dtor>>

ReadScalarFromMemory(process_address, size, rok, order) ==
    ReadScalarOp("ReadScalarFromMemory", process_address, size, rok, order, 0)

\* IRMemoryMap::ReadPointerFromMemory: ret.scalar is pointer_scalar
ReadPointerFromMemory(process_address, rok, order, width) ==
    ReadScalarOp("ReadPointerFromMemory", process_address,
                 GetAddressByteSize(width), rok, order, GetAddressByteSize(width))

----------------------------------------------------------------------------
(* The destructor *)

\* A call of IRMemoryMap::FindAllocation: the key of the entry found is kept
FindAllocationCall(addr, size) ==
    /\ ret' = Result("FindAllocation", addr, size, NoData,
                     FindAllocation(addr, size), "none", NoCalls)
    /\ UNCHANGED <<m_allocations, process_sp, target_sp, remote_allocs, remote_mem,
                   written, host_max, mallocs, writes, dtor>>

\* A call of IRMemoryMap::IntersectsAllocation: res is 1 for true, 0 for false
IntersectsAllocationCall(addr, size) ==
    /\ ret' = Result("IntersectsAllocation", addr, size, NoData,
                     IF IntersectsAllocation(addr, size) THEN 1 ELSE 0, "none", NoCalls)
    /\ UNCHANGED <<m_allocations, process_sp, target_sp, remote_allocs, remote_mem,
                   written, host_max, mallocs, writes, dtor>>

\* Mutation: the loop is entered whether or not the process is still there
DtorEnter_Always ==
    /\ dtor = "idle"
    /\ dtor' = "loop"
    /\ UNCHANGED <<m_allocations, process_sp, target_sp, remote_allocs, remote_mem,
                   ret, written, host_max, mallocs, writes>>

\* IRMemoryMap::~IRMemoryMap: process_sp = m_process_wp.lock(); if (process_sp)
DtorEnter ==
    /\ dtor = "idle"
    /\ dtor' = IF process_sp THEN "loop" ELSE "done"
    /\ UNCHANGED <<m_allocations, process_sp, target_sp, remote_allocs, remote_mem,
                   ret, written, host_max, mallocs, writes>>

\* Mutation: the loop frees every entry, leaked or not
DtorPass_FreesLeaked(jit) ==
    /\ dtor = "loop"
    /\ Keys # {}
    /\ Free(Begin, jit)

\* One pass of the while loop, on the first entry of the index
DtorPass(jit) ==
    /\ dtor = "loop"
    /\ Keys # {}
    /\ LET iter == Begin
       IN IF m_allocations[iter].m_leak
          THEN /\ ~jit
               /\ m_allocations' = Erase(m_allocations, iter)
               /\ written' = Erase(written, iter)
               /\ ret' = Result("erase", iter, 0, NoData, 0, "none", NoCalls)
               /\ UNCHANGED <<process_sp, target_sp, remote_allocs, remote_mem,
                              host_max, mallocs, writes, dtor>>
          ELSE Free(iter, jit)

\* The while loop ends: m_allocations.begin() == m_allocations.end()
DtorExit ==
    /\ dtor = "loop"
    /\ Keys = {}
    /\ dtor' = "done"
    /\ UNCHANGED <<m_allocations, process_sp, target_sp, remote_allocs, remote_mem,
                   ret, written, host_max, mallocs, writes>>

----------------------------------------------------------------------------
(* The environment *)

\* The last strong reference to the process is dropped; ~IRMemoryMap holds
\* one while its loop runs
ProcessGone ==
    /\ process_sp
    /\ dtor # "loop"
    /\ process_sp' = FALSE
    /\ remote_allocs' = {} /\ remote_mem' = <<>>
    /\ UNCHANGED <<m_allocations, target_sp, ret, written, host_max, mallocs, writes, dtor>>

\* The last strong reference to the target is dropped
TargetGone ==
    /\ target_sp
    /\ target_sp' = FALSE
    /\ UNCHANGED <<m_allocations, process_sp, remote_allocs, remote_mem, ret,
                   written, host_max, mallocs, writes, dtor>>

----------------------------------------------------------------------------
(* Specifications *)

NoResult == Result("", 0, 0, NoData, 0, "none", NoCalls)

\* IRMemoryMap::IRMemoryMap
Init ==
    /\ m_allocations = <<>>
    /\ target_sp \in BOOLEAN
    /\ process_sp \in (IF target_sp THEN BOOLEAN ELSE {FALSE})
    /\ remote_allocs = {}
    /\ remote_mem = <<>>
    /\ ret = NoResult
    /\ written = <<>>
    /\ host_max = -1
    /\ mallocs = 0
    /\ writes = 0
    /\ dtor = "idle"

\* Addresses a client may pass: the ends and insides of the allocations,
\* and the address of its last call
ProbeAddrs ==
    {0, ret.addr} \cup UNION {{k, k + 1, m_allocations[k].m_process_alloc} : k \in Keys}

\* Addresses the memory operations are tried at
MemProbes ==
    UNION {{k, k + 2, k + m_allocations[k].m_size - 1} : k \in Keys}

\* The allocation index: Malloc, Free and Leak under every policy
DoMalloc ==
    /\ mallocs < MaxMallocs
    /\ \E size \in Sizes, alignment \in Alignments, permissions \in Permissions,
          policy \in Policies, jit \in BOOLEAN,
          resp \in RemoteAddrs \cup {AllocFail} :
            Malloc(size, alignment, permissions, policy, FALSE, jit, resp)
DoFindSpace ==
    \E size \in {0} \cup Sizes, jit \in BOOLEAN, resp \in RemoteAddrs \cup {AllocFail} :
        FindSpaceCall(size, FALSE, jit, resp)
DoLeak == \E a \in ProbeAddrs : Leak(a)
DoFree == \E a \in ProbeAddrs, jit \in BOOLEAN : Free(a, jit)

Next ==
    \/ DoMalloc
    \/ DoFindSpace
    \/ DoLeak
    \/ DoFree
    \/ ProcessGone

Spec == Init /\ [][Next]_vars

\* The memory of one allocation at a time: WriteMemory and ReadMemory
MemMalloc ==
    /\ Keys = {}
    /\ mallocs < MaxSoloMallocs
    /\ \E size \in MemSizes, alignment \in MemAlignments,
          permissions \in Permissions, policy \in Policies,
          zero_memory \in BOOLEAN, jit \in BOOLEAN,
          resp \in MemRemoteAddrs \cup {AllocFail} :
            Malloc(size, alignment, permissions, policy, zero_memory, jit, resp)
MemFree == \E a \in Keys, jit \in BOOLEAN : Free(a, jit)
DoWrite ==
    /\ writes < MaxWrites
    /\ \E a \in MemProbes, bytes \in DataSet, rok \in BOOLEAN :
          WriteMemory(a, bytes, rok)
DoRead == \E a \in MemProbes, size \in ReadSizes, rok \in BOOLEAN :
            ReadMemory(a, size, rok)

NextMem ==
    \/ MemMalloc
    \/ MemFree
    \/ DoWrite
    \/ DoRead
    \/ ProcessGone
    \/ TargetGone

SpecMem == Init /\ [][NextMem]_vars

\* The host pseudo-heap: a process, if any, that never supports JIT allocation
HostMalloc ==
    /\ mallocs < MaxHostMallocs
    /\ \E size \in HostSizes, alignment \in HostAlignments,
          permissions \in Permissions, policy \in HostPolicies,
          zero_memory \in BOOLEAN :
            Malloc(size, alignment, permissions, policy, zero_memory, FALSE, AllocFail)
HostFree == \E a \in ProbeAddrs : Free(a, FALSE)

NextHost ==
    \/ HostMalloc
    \/ DoLeak
    \/ HostFree
    \/ ProcessGone

SpecHost == Init /\ [][NextHost]_vars

\* Lookups by address: allocations of two sizes, then every probe
SeekMalloc ==
    /\ mallocs < MaxMallocs
    /\ \E size \in SeekSizes, alignment \in Alignments, permissions \in Permissions,
          policy \in Policies, jit \in BOOLEAN,
          resp \in RemoteAddrs \cup {AllocFail} :
            Malloc(size, alignment, permissions, policy, FALSE, jit, resp)
SeekFree == \E a \in Keys : Free(a, FALSE)
DoFindAllocation ==
    \E addr \in SeekAddrs, size \in SeekSpans : FindAllocationCall(addr, size)

DoIntersectsAllocation ==
    \E addr \in SeekAddrs, size \in SeekSpans : IntersectsAllocationCall(addr, size)

NextSeek ==
    \/ SeekMalloc
    \/ SeekFree
    \/ DoFindAllocation
    \/ DoIntersectsAllocation

SpecSeek == Init /\ [][NextSeek]_vars

\* Scalars and pointers: one allocation of eight bytes, a scalar or a
\* pointer written to its start and read back
ScalarMalloc ==
    /\ Keys = {}
    /\ mallocs < MaxSoloMallocs
    /\ \E permissions \in Permissions, policy \in Policies, jit \in BOOLEAN,
          resp \in MemRemoteAddrs \cup {AllocFail} :
            Malloc(MaxScalarSize, 1, permissions, policy, FALSE, jit, resp)
DoWriteScalar ==
    /\ writes < MaxScalarWrites
    /\ \E a \in Keys, scalar \in ScalarSet, size \in ScalarSizes \cup {UINT32_MAX},
          rok \in BOOLEAN, order \in ByteOrders :
            WriteScalarToMemory(a, scalar, size, rok, order)
DoReadScalar ==
    \E a \in Keys, size \in ScalarSizes, rok \in BOOLEAN, order \in ByteOrders :
        ReadScalarFromMemory(a, size, rok, order)
DoWritePointer ==
    /\ writes < MaxScalarWrites
    /\ \E a \in Keys, address \in PointerSet, rok \in BOOLEAN,
          order \in ByteOrders, width \in AddressByteSizes :
            WritePointerToMemory(a, address, rok, order, width)
DoReadPointer ==
    \E a \in Keys, rok \in BOOLEAN, order \in ByteOrders,
       width \in AddressByteSizes :
        ReadPointerFromMemory(a, rok, order, width)

NextScalar ==
    \/ ScalarMalloc
    \/ DoWriteScalar
    \/ DoReadScalar
    \/ DoWritePointer
    \/ DoReadPointer
    \/ ProcessGone
    \/ TargetGone

SpecScalar == Init /\ [][NextScalar]_vars

\* Views of the shadow: one allocation, written and then looked at
DoGetMemoryData ==
    \E a \in MemProbes, size \in {0} \cup ReadSizes, rok \in BOOLEAN,
       order \in ByteOrders, width \in AddressByteSizes :
        GetMemoryData(a, size, rok, order, width)

NextView ==
    \/ MemMalloc
    \/ DoWrite
    \/ DoGetMemoryData
    \/ ProcessGone
    \/ TargetGone

SpecView == Init /\ [][NextView]_vars

\* Two allocations side by side, and operations on ranges across them
PairMalloc ==
    /\ mallocs < MaxMallocs
    /\ \E size \in SeekSizes, permissions \in Permissions, policy \in Policies,
          jit \in BOOLEAN, resp \in PairRemoteAddrs \cup {AllocFail} :
            Malloc(size, 1, permissions, policy, FALSE, jit, resp)
PairWrite ==
    /\ writes < MaxPairWrites
    /\ \E a \in PairAddrs, bytes \in DataSet, rok \in BOOLEAN :
          WriteMemory(a, bytes, rok)

DoGetAllocSize ==
    \E a \in PairAddrs, size \in EntrySizes : GetAllocSizeCall(a, size)

NextPair ==
    \/ PairMalloc
    \/ PairWrite
    \/ DoGetAllocSize
    \/ ProcessGone

SpecPair == Init /\ [][NextPair]_vars

\* Two allocations, one write, and every operation that only looks
FrameMalloc ==
    /\ mallocs < MaxMallocs
    /\ \E permissions \in Permissions, policy \in Policies, jit \in BOOLEAN,
          resp \in FrameAddrs \cup {AllocFail} :
            Malloc(FrameSize, 1, permissions, policy, FALSE, jit, resp)
FrameWrite ==
    /\ writes < MaxPairWrites
    /\ \E a \in FrameAddrs, bytes \in DataSet, rok \in BOOLEAN :
          WriteMemory(a, bytes, rok)
FrameRead ==
    \E a \in FrameAddrs, rok \in BOOLEAN : ReadMemory(a, FrameSize, rok)
FrameReadScalar ==
    \E a \in FrameAddrs, rok \in BOOLEAN :
        ReadScalarFromMemory(a, FrameSize, rok, eByteOrderLittle)
FrameReadPointer ==
    \E a \in FrameAddrs, rok \in BOOLEAN :
        ReadPointerFromMemory(a, rok, eByteOrderLittle, 4)
FrameGetAllocSize == \E a \in FrameAddrs : GetAllocSizeCall(a, 0)
FrameGetMemoryData ==
    \E a \in FrameAddrs, rok \in BOOLEAN :
        GetMemoryData(a, FrameSize, rok, eByteOrderLittle, 4)
FrameIntersects == \E addr \in FrameAddrs : IntersectsAllocationCall(addr, FrameSize)

NextFrame ==
    \/ FrameMalloc
    \/ FrameWrite
    \/ FrameRead
    \/ FrameReadScalar
    \/ FrameReadPointer
    \/ FrameGetAllocSize
    \/ FrameGetMemoryData
    \/ FrameIntersects
    \/ ProcessGone

SpecFrame == Init /\ [][NextFrame]_vars

\* Allocation requests: every policy, several permission masks, zeroed or not
AllocMalloc ==
    /\ mallocs < MaxMallocs
    /\ \E permissions \in AllocPermissions, policy \in Policies,
          zero_memory \in BOOLEAN, jit \in BOOLEAN,
          resp \in PairRemoteAddrs \cup {AllocFail} :
            Malloc(1, 1, permissions, policy, zero_memory, jit, resp)
AllocFree == \E a \in Keys, jit \in BOOLEAN : Free(a, jit)

NextAlloc ==
    \/ AllocMalloc
    \/ AllocFree
    \/ ProcessGone

SpecAlloc == Init /\ [][NextAlloc]_vars

\* The edge of the address space: one allocation, and requests whose end
\* addr + size wraps around
EdgeMalloc ==
    /\ Keys = {}
    /\ mallocs < MaxSoloMallocs
    /\ \E permissions \in Permissions, policy \in Policies, jit \in BOOLEAN,
          resp \in PairRemoteAddrs \cup {AllocFail} :
            Malloc(EdgeSize, 1, permissions, policy, FALSE, jit, resp)
EdgeFind == \E addr \in EdgeAddrs, size \in EdgeSizes : FindAllocationCall(addr, size)
EdgeWrite ==
    /\ writes < MaxPairWrites
    /\ \E a \in EdgeAddrs, bytes \in DataSet, rok \in BOOLEAN :
          WriteMemory(a, bytes, rok)
EdgeRead ==
    \E a \in EdgeAddrs, size \in EdgeSizes, rok \in BOOLEAN : ReadMemory(a, size, rok)
EdgeGetMemoryData ==
    \E a \in EdgeAddrs, size \in EdgeSizes, rok \in BOOLEAN :
        GetMemoryData(a, size, rok, eByteOrderLittle, 4)

NextEdge ==
    \/ EdgeMalloc
    \/ EdgeFind
    \/ EdgeWrite
    \/ EdgeRead
    \/ EdgeGetMemoryData
    \/ ProcessGone

SpecEdge == Init /\ [][NextEdge]_vars

\* Shutdown: allocations are made and leaked, then the map is destroyed
ShutMalloc == dtor = "idle" /\ DoMalloc
ShutLeak == dtor = "idle" /\ \E a \in Keys : Leak(a)
ShutProcessGone == dtor = "idle" /\ ProcessGone
DoDtorPass == \E jit \in BOOLEAN : DtorPass(jit)

NextShutdown ==
    \/ ShutMalloc
    \/ ShutLeak
    \/ ShutProcessGone
    \/ DtorEnter
    \/ DoDtorPass
    \/ DtorExit

SpecShutdown == Init /\ [][NextShutdown]_vars

\* The destructor, once entered, runs on
SpecShutdownLive ==
    SpecShutdown /\ WF_vars(DoDtorPass) /\ WF_vars(DtorExit)

\* The size rounding of Malloc: one allocation, every size and alignment
RoundMalloc ==
    /\ Keys = {}
    /\ mallocs < MaxSoloMallocs
    /\ \E size \in RoundSizes, alignment \in RoundAlignments,
          permissions \in Permissions, policy \in Policies, jit \in BOOLEAN,
          resp \in MemRemoteAddrs \cup {AllocFail} :
            Malloc(size, alignment, permissions, policy, FALSE, jit, resp)

NextRound ==
    \/ RoundMalloc
    \/ MemFree
    \/ ProcessGone

SpecRound == Init /\ [][NextRound]_vars

----------------------------------------------------------------------------
(* Properties *)

Intervals == {[start |-> k, size |-> m_allocations[k].m_size] : k \in Keys}
Disjoint(a, b) == a.start + a.size <= b.start \/ b.start + b.size <= a.start

\* The least multiple of n that is >= v
LeastMultiple(v, n) == v + ((n - (v % n)) % n)

\* The allocations whose interval encloses [addr, addr + size)
Contained(addr, size) ==
    {k \in Keys : k <= addr /\ addr + size <= k + m_allocations[k].m_size}

\* What the host search for free space has to give in the current index
HostSearch ==
    IF Keys = {} THEN 0
    ELSE LeastMultiple(Max(Keys) + m_allocations[Max(Keys)].m_size, PageSize)

\* The step is a call of the operation
MallocStep == mallocs' = mallocs + 1
WriteStep == writes' = writes + 1
ReadStep == ret' # ret /\ ret'.op = "ReadMemory"
FreeStep == ret' # ret /\ ret'.op = "Free"
FindSpaceStep == ret' # ret /\ ret'.op = "FindSpace"

\* C1: after any sequence of Malloc, Free and Leak, under every policy and
\* with the process allocating fresh spans, the intervals
\* [aligned_start, aligned_start + size) of the live allocations are pairwise
\* disjoint.
C1_Disjoint == \A a \in Intervals, b \in Intervals : a # b => Disjoint(a, b)

\* C2: for every live allocation aligned_start is the least multiple of the
\* alignment that is >= raw_start (a multiple of the alignment, not below
\* raw_start, less than one alignment above it), and the key of the record
\* is its aligned_start.
C2_AlignedStart ==
    \A k \in Keys :
        LET a == m_allocations[k]
        IN /\ a.m_process_start = k
           /\ k % a.m_alignment = 0
           /\ k >= a.m_process_alloc
           /\ k - a.m_process_alloc < a.m_alignment

\* C2 witness: an allocation whose raw start the process chose unaligned
C2_Witness ==
    \E k \in Keys : m_allocations[k].m_process_alloc = 1 /\ k = 4 /\
                    m_allocations[k].m_alignment = 4

\* The allocation reads and writes its shadow: HostOnly, or Mirror with no process
HostBacked(k) ==
    \/ m_allocations[k].m_policy = eAllocationPolicyHostOnly
    \/ m_allocations[k].m_policy = eAllocationPolicyMirror /\ ~process_sp

\* C3: on an allocation that is HostOnly, or Mirror with no process, a
\* WriteMemory of bytes b at a range inside the allocation succeeds, puts b
\* at that range of the shadow and leaves the other bytes of the allocation
\* as they were; the ReadMemory of the same address and length that follows
\* succeeds and returns exactly b.
C3_RoundTrip ==
    [][/\ WriteStep =>
            \A k \in Contained(ret'.addr, ret'.size) : HostBacked(k) =>
                /\ ret'.err = "none"
                /\ \A i \in 1..m_allocations[k].m_size :
                      LET j == k + i - ret'.addr
                      IN m_allocations'[k].m_data[i] =
                            IF j >= 1 /\ j <= ret'.size THEN ret'.data[j]
                            ELSE m_allocations[k].m_data[i]
       /\ (ReadStep /\ ret.op = "WriteMemory" /\ ret.err = "none" /\
           ret'.addr = ret.addr /\ ret'.size = ret.size) =>
            \A k \in Contained(ret.addr, ret.size) : HostBacked(k) =>
                ret'.err = "none" /\ ret'.data = ret.data]_vars

\* C3 witness: two bytes written in the middle of a shadow were read back
C3_Witness ==
    /\ ret.op = "ReadMemory" /\ ret.err = "none" /\ ret.data = <<2, 1>>
    /\ \E k \in Contained(ret.addr, ret.size) :
          /\ HostBacked(k)
          /\ ret.addr = k + 2
          /\ m_allocations[k].m_data = <<0, 0, 2, 1>>

HostMallocDone ==
    /\ MallocStep
    /\ ret'.err = "none"
    /\ ~ret'.jit
    /\ m_allocations'[ret'.res].m_policy = eAllocationPolicyHostOnly

FourHostMallocs ==
    /\ ret.op = "Malloc" /\ ret.err = "none"
    /\ ret.size = 100 /\ ret.alignment = 16
    /\ mallocs = 4 /\ Cardinality(Keys) = 4
    /\ \A k \in Keys :
          /\ m_allocations[k].m_policy = eAllocationPolicyHostOnly
          /\ m_allocations[k].m_alignment = 16
          /\ m_allocations[k].m_size = 112

\* C6 as stated: the fourth of four host-only Mallocs of size 100 at
\* alignment 16 into an empty index returns 0x1000.
C6_FourthAt0x1000 == FourHostMallocs => ret.res = 4096

\* C6: the fourth of four host-only Mallocs of size 100 at alignment 16
\* into an empty index returns 0x3000, the allocations being at 0, 0x1000,
\* 0x2000 and 0x3000.
C6_FourthAt0x3000 ==
    FourHostMallocs => ret.res = 12288 /\ Keys = {0, 4096, 8192, 12288}

\* C6 witness: the fourth Malloc has returned
C6_Witness == FourHostMallocs /\ ret.res = 3 * PageSize

\* What C7 asks of a host-only Malloc step with no process able to allocate
HostMallocSearch ==
    (MallocStep /\ ret'.policy = eAllocationPolicyHostOnly /\ ~ret'.jit) =>
        /\ ret'.err = "none"
        /\ ret'.calls = NoCalls
        /\ m_allocations'[ret'.res].m_process_alloc = HostSearch
        /\ ret'.res = LeastMultiple(HostSearch, ret'.alignment)

\* C7 as stated: with no process able to allocate, FindSpace, and so a
\* host-only Malloc, gives 0 when the index is empty and otherwise
\* a + s rounded up to 4096, (a, s) being the entry of greatest key.
C7_HostSearchAnySize ==
    [][/\ (FindSpaceStep /\ ~ret'.jit) =>
            ret'.res = HostSearch /\ ret'.calls = NoCalls
       /\ HostMallocSearch]_vars

\* C7: with no process able to allocate, FindSpace of a size other than 0,
\* and so a host-only Malloc, gives 0 when the index is empty and otherwise
\* a + s rounded up to 4096, (a, s) being the entry of greatest key,
\* whatever its policy; FindSpace of size 0 gives LLDB_INVALID_ADDRESS.
C7_HostSearch ==
    [][/\ (FindSpaceStep /\ ~ret'.jit) =>
            /\ ret'.res = IF ret'.size = 0 THEN LLDB_INVALID_ADDRESS ELSE HostSearch
            /\ ret'.calls = NoCalls
       /\ HostMallocSearch]_vars

\* C7 witness: the search went on from a last entry that is ProcessOnly
C7_Witness ==
    /\ ret.op = "FindSpace" /\ ~ret.jit /\ ret.size # 0
    /\ ret.res = PageSize
    /\ Keys # {}
    /\ m_allocations[Max(Keys)].m_policy = eAllocationPolicyProcessOnly

\* C8: the size recorded by Malloc is the alignment when the size asked is
\* 0, and otherwise the least multiple of the alignment that is >= the size
\* asked.
C8_RoundedSize ==
    (ret.op = "Malloc" /\ ret.err = "none" /\ ret.res \in Keys) =>
        m_allocations[ret.res].m_size =
            IF ret.size = 0 THEN ret.alignment
            ELSE LeastMultiple(ret.size, ret.alignment)

\* The allocation was asked as Mirror and made HostOnly
Downgraded(k) ==
    /\ written[k].asked = eAllocationPolicyMirror
    /\ m_allocations[k].m_policy = eAllocationPolicyHostOnly

\* C9: a Malloc with policy Mirror when no process can allocate succeeds,
\* makes no call on the process, takes its address from the host search and
\* stores the allocation as HostOnly with a shadow of zeros; WriteMemory,
\* ReadMemory and Free on that allocation then go the HostOnly way: the
\* shadow alone is written and read, and the process is asked to deallocate
\* only when it can allocate.
C9_MirrorDowngrade ==
    [][/\ (MallocStep /\ ret'.policy = eAllocationPolicyMirror /\ ~ret'.jit) =>
            /\ ret'.err = "none"
            /\ ret'.calls = NoCalls
            /\ ret'.res \in DOMAIN m_allocations'
            /\ LET a == m_allocations'[ret'.res]
               IN /\ a.m_policy = eAllocationPolicyHostOnly
                  /\ a.m_process_alloc = HostSearch
                  /\ a.m_size > 0
                  /\ a.m_data = [i \in 1..a.m_size |-> 0]
       /\ \A k \in Keys : Downgraded(k) =>
            /\ (WriteStep /\ k \in Contained(ret'.addr, ret'.size)) =>
                  /\ ret'.err = "none" /\ ret'.calls = NoCalls
                  /\ remote_mem' = remote_mem
                  /\ \A j \in 1..ret'.size :
                        m_allocations'[k].m_data[ret'.addr - k + j] = ret'.data[j]
            /\ (ReadStep /\ k \in Contained(ret'.addr, ret'.size)) =>
                  /\ ret'.err = "none" /\ ret'.calls = NoCalls
                  /\ \A j \in 1..ret'.size :
                        ret'.data[j] = m_allocations[k].m_data[ret'.addr - k + j]
            /\ (FreeStep /\ ret'.addr = k) =>
                  /\ k \notin DOMAIN m_allocations'
                  /\ ret'.calls = IF ret'.jit
                                  THEN <<DeallocCall(m_allocations[k].m_process_alloc)>>
                                  ELSE NoCalls]_vars

\* C9 witness: with a process, a write to a downgraded allocation went to
\* the shadow alone
C9_Witness ==
    /\ process_sp
    /\ ret.op = "WriteMemory" /\ ret.err = "none" /\ ret.calls = NoCalls
    /\ \E k \in Contained(ret.addr, ret.size) : Downgraded(k)

\* C10: a Malloc with policy ProcessOnly fails with RemoteRequired when
\* there is no process and with RemoteUnsupported when the process cannot
\* allocate; a failure leaves the index as it was; an allocation is made
\* only by a call of the process allocator that succeeded, and is stored
\* as ProcessOnly with no shadow.
C10_ProcessOnly ==
    [][(MallocStep /\ ret'.policy = eAllocationPolicyProcessOnly) =>
            /\ ~process_sp => ret'.err = "RemoteRequired"
            /\ (process_sp /\ ~ret'.jit) => ret'.err = "RemoteUnsupported"
            /\ ret'.err # "none" =>
                  m_allocations' = m_allocations /\ ret'.res = LLDB_INVALID_ADDRESS
            /\ ~ret'.jit => ret'.calls = NoCalls /\ remote_allocs' = remote_allocs
            /\ ret'.err = "none" =>
                  /\ ret'.jit
                  /\ Len(ret'.calls) = 1
                  /\ ret'.calls[1].fn \in {"AllocateMemory", "CallocateMemory"}
                  /\ LET a == m_allocations'[ret'.res]
                     IN /\ a.m_policy = eAllocationPolicyProcessOnly
                        /\ a.m_data = <<>>
                        /\ [addr |-> a.m_process_alloc, size |-> a.m_size]
                              \in remote_allocs']_vars

\* C10 witness: a ProcessOnly Malloc was refused by a process that cannot allocate
C10_Witness ==
    /\ process_sp
    /\ ret.op = "Malloc" /\ ret.policy = eAllocationPolicyProcessOnly
    /\ ret.err = "RemoteUnsupported"
    /\ ret.res = LLDB_INVALID_ADDRESS

\* The process allocator was called in the step and refused
RemoteRefused == ret'.calls # NoCalls /\ remote_allocs' = remote_allocs

\* C11: a Malloc that fails (the process allocator refuses under Mirror or
\* ProcessOnly, there is no process or none that can allocate under
\* ProcessOnly, the search for free space gives LLDB_INVALID_ADDRESS)
\* returns LLDB_INVALID_ADDRESS with an error set and leaves the index and
\* every shadow as they were; a Mirror request the process refuses is not
\* made on the host.
C11_FailingMalloc ==
    [][MallocStep =>
        /\ (\/ RemoteRefused
            \/ ret'.policy = eAllocationPolicyProcessOnly /\ ~ret'.jit)
              => ret'.err # "none"
        /\ ret'.err # "none" <=> ret'.res = LLDB_INVALID_ADDRESS
        /\ ret'.err # "none" => m_allocations' = m_allocations
        /\ (RemoteRefused /\ ret'.policy # eAllocationPolicyHostOnly)
              => ret'.err = "RemoteAllocFailed" /\ Len(ret'.calls) = 1
        /\ (RemoteRefused /\ ret'.policy = eAllocationPolicyHostOnly)
              => ret'.err = "AddressSpaceFull"]_vars

\* C11 witness: the process refused a Mirror request while the index held
\* an allocation with a shadow
C11_Witness ==
    /\ ret.op = "Malloc" /\ ret.policy = eAllocationPolicyMirror
    /\ ret.err = "RemoteAllocFailed" /\ ret.res = LLDB_INVALID_ADDRESS
    /\ \E k \in Keys : m_allocations[k].m_data # <<>>

\* C12: Free looks the address up as a key of the index: at an address that
\* is not the aligned_start of a live allocation, one inside an allocation
\* included, it fails with NotFound, calls nothing on the process and leaves
\* the index as it was; at the aligned_start of a live allocation it
\* removes that entry and no other.
C12_FreeExact ==
    [][FreeStep =>
        IF ret'.addr \in Keys
        THEN /\ ret'.err = "none"
             /\ DOMAIN m_allocations' = Keys \ {ret'.addr}
             /\ \A k \in Keys \ {ret'.addr} : m_allocations'[k] = m_allocations[k]
        ELSE /\ ret'.err = "NotFound"
             /\ ret'.calls = NoCalls
             /\ remote_allocs' = remote_allocs
             /\ m_allocations' = m_allocations]_vars

\* C12 witness: Free of an address strictly inside a live allocation was refused
C12_Witness ==
    /\ ret.op = "Free" /\ ret.err = "NotFound"
    /\ \E k \in Keys : k < ret.addr /\ ret.addr < k + m_allocations[k].m_size

\* C13: Free of a live Mirror or ProcessOnly allocation while the process
\* exists calls DeallocateMemory once, with the raw start of the allocation;
\* a second Free of the same address fails with NotFound and calls nothing.
C13_FreeRemote ==
    [][/\ (FreeStep /\ ret'.addr \in Keys /\ process_sp /\
           m_allocations[ret'.addr].m_policy # eAllocationPolicyHostOnly) =>
            /\ ret'.err = "none"
            /\ ret'.calls = <<DeallocCall(m_allocations[ret'.addr].m_process_alloc)>>
            /\ remote_allocs' =
                  {s \in remote_allocs : s.addr # m_allocations[ret'.addr].m_process_alloc}
       /\ (FreeStep /\ ret.op = "Free" /\ ret.err = "none" /\ ret'.addr = ret.addr) =>
            /\ ret'.err = "NotFound"
            /\ ret'.calls = NoCalls
            /\ remote_allocs' = remote_allocs]_vars

\* C13 witness: the second Free of an allocation whose raw start was not aligned
C13_Witness ==
    /\ process_sp
    /\ ret.op = "Free" /\ ret.err = "NotFound" /\ ret.addr = 4
    /\ Keys = {}
    /\ remote_allocs = {}
    /\ mallocs = 1 /\ host_max < 0

\* C14: Free of an allocation stored as HostOnly calls DeallocateMemory with
\* its raw start if, at the time of the Free, there is a process that is
\* alive and can allocate, and calls nothing on the process otherwise.
C14_FreeHostOnly ==
    [][(FreeStep /\ ret'.addr \in Keys /\
        m_allocations[ret'.addr].m_policy = eAllocationPolicyHostOnly) =>
            /\ ret'.err = "none"
            /\ ret'.calls =
                  IF process_sp /\ ret'.jit
                  THEN <<DeallocCall(m_allocations[ret'.addr].m_process_alloc)>>
                  ELSE NoCalls
            /\ ~(process_sp /\ ret'.jit) => remote_allocs' = remote_allocs]_vars

\* C14 witness: a HostOnly allocation the process made through FindSpace
\* was given back to it
C14_Witness ==
    /\ ret.op = "Free" /\ ret.jit /\ ret.addr = 4
    /\ ret.calls = <<DeallocCall(1)>>
    /\ host_max = 4

LeakStep == ret' # ret /\ ret'.op = "Leak"

\* The calls a Free of allocation k makes on the process, its leak flag aside
DeallocOf(k, jit) ==
    IF process_sp /\ (jit \/ m_allocations[k].m_policy # eAllocationPolicyHostOnly)
    THEN <<DeallocCall(m_allocations[k].m_process_alloc)>>
    ELSE NoCalls

\* C15: Leak at the aligned_start of a live allocation sets its leak flag
\* and changes nothing else, so that a repeated Leak changes nothing; at any
\* other address it fails with NotFound and changes nothing; a Free of a
\* leaked allocation removes the entry and calls the process as it would
\* for one not leaked.
C15_Leak ==
    [][/\ LeakStep =>
            /\ UNCHANGED <<process_sp, target_sp, remote_allocs, remote_mem>>
            /\ IF ret'.addr \in Keys
               THEN /\ ret'.err = "none"
                    /\ DOMAIN m_allocations' = Keys
                    /\ \A k \in Keys :
                          m_allocations'[k] =
                            IF k = ret'.addr
                            THEN [m_allocations[k] EXCEPT !.m_leak = TRUE]
                            ELSE m_allocations[k]
                    /\ m_allocations[ret'.addr].m_leak => m_allocations' = m_allocations
               ELSE /\ ret'.err = "NotFound"
                    /\ m_allocations' = m_allocations
       /\ (FreeStep /\ ret'.addr \in Keys /\ m_allocations[ret'.addr].m_leak) =>
            /\ ret'.err = "none"
            /\ ret'.addr \notin DOMAIN m_allocations'
            /\ ret'.calls = DeallocOf(ret'.addr, ret'.jit)]_vars

\* C15 witness: an allocation the process made is marked as leaked
C15_Witness ==
    /\ process_sp
    /\ ret.op = "Leak" /\ ret.err = "none"
    /\ ret.addr \in Keys
    /\ m_allocations[ret.addr].m_leak
    /\ m_allocations[ret.addr].m_policy = eAllocationPolicyMirror

\* A pass of the destructor's loop: it works on the entry Begin
DtorStep == dtor = "loop" /\ m_allocations' # m_allocations

\* The raw start of allocation k is a span the process handed out
OnRemote(k) == \E s \in remote_allocs : s.addr = m_allocations[k].m_process_alloc

\* C16 as stated: at shutdown with the process present, a leaked allocation is
\* not deallocated, and every allocation not leaked whose raw start the
\* process allocated is deallocated, once, at its raw start.
C16_ShutdownDeallocs ==
    [][DtorStep =>
        IF m_allocations[Begin].m_leak
        THEN ret'.calls = NoCalls /\ remote_allocs' = remote_allocs
        ELSE OnRemote(Begin) =>
                ret'.calls = <<DeallocCall(m_allocations[Begin].m_process_alloc)>>]_vars

\* C16 as the code has it: each pass of the loop removes the first entry; a
\* leaked one without any call on the process; one not leaked through Free,
\* which deallocates the raw start of a Mirror or ProcessOnly allocation
\* once, and that of a HostOnly allocation only if the process is alive and
\* can allocate at that moment.
C16_ShutdownFrees ==
    [][DtorStep =>
        /\ DOMAIN m_allocations' = Keys \ {Begin}
        /\ IF m_allocations[Begin].m_leak
           THEN ret'.calls = NoCalls /\ remote_allocs' = remote_allocs
           ELSE /\ ret'.calls = DeallocOf(Begin, ret'.jit)
                /\ m_allocations[Begin].m_policy # eAllocationPolicyHostOnly =>
                      /\ ret'.calls = <<DeallocCall(m_allocations[Begin].m_process_alloc)>>
                      /\ ~ \E s \in remote_allocs' :
                             s.addr = m_allocations[Begin].m_process_alloc]_vars

\* C16 witness: the destructor ran with the process present; the last entry
\* was given back to the process and a leaked one is still allocated there
C16_Witness ==
    /\ dtor = "done" /\ process_sp
    /\ mallocs = 2
    /\ ret.op = "Free" /\ ret.calls # NoCalls
    /\ remote_allocs # {}

\* C17 as stated: shutdown ends with an empty index, whatever the index
\* holds and whether or not the process is still there.
C17_EndsEmpty == dtor = "done" => Keys = {}

\* C17 as the code has it: the loop, once entered, ends, and ends with an
\* empty index; each pass removes exactly one entry; the loop is entered
\* only if the process is still there: otherwise the destructor removes no
\* entry and calls nothing on the process.
C17_ShutdownTerminates ==
    /\ (dtor = "loop") ~> (dtor = "done" /\ Keys = {})
    /\ [](dtor = "done" /\ process_sp => Keys = {})
    /\ [][DtorStep => /\ Begin \notin DOMAIN m_allocations'
                      /\ Cardinality(DOMAIN m_allocations') = Cardinality(Keys) - 1]_vars
    /\ [][(dtor # "idle" \/ dtor' # "idle") /\ ~process_sp =>
            /\ dtor' = "done"
            /\ UNCHANGED <<m_allocations, remote_allocs, ret>>]_vars

\* C17 witness: the loop emptied an index of two entries, the last of them leaked
C17_Witness ==
    /\ dtor = "done" /\ Keys = {}
    /\ mallocs = 2
    /\ ret.op = "erase" /\ ret.addr > 0

FindStep == ret' # ret /\ ret'.op = "FindAllocation"

\* C18: FindAllocation(addr, size) finds an allocation exactly if some live
\* allocation's interval encloses [addr, addr + size), and the one it finds
\* encloses it.
C18_FindAllocation ==
    [][FindStep =>
        /\ ret'.res # End <=> Contained(ret'.addr, ret'.size) # {}
        /\ ret'.res # End => ret'.res \in Contained(ret'.addr, ret'.size)]_vars

IntersectsStep == ret' # ret /\ ret'.op = "IntersectsAllocation"

\* The allocations whose interval intersects [addr, addr + size)
Intersecting(addr, size) ==
    {k \in Keys : k < addr + size /\ addr < k + m_allocations[k].m_size}

\* C19: IntersectsAllocation(addr, size) with size > 0 is true exactly if
\* the interval of some live allocation intersects [addr, addr + size).
C19_IntersectsAllocation ==
    [][IntersectsStep /\ ret'.size > 0 =>
        (ret'.res = 1 <=> Intersecting(ret'.addr, ret'.size) # {})]_vars

Zeros(n) == [i \in 1..n |-> 0]

\* C20: every live allocation has a shadow of exactly m_size bytes if its
\* stored policy is HostOnly or Mirror and none if it is ProcessOnly; the
\* shadow Malloc makes is all zeros whether or not zero_memory was asked;
\* a ReadMemory inside a HostOnly allocation straight after its Malloc
\* succeeds and yields zeros.
C20_Shadow ==
    /\ [](\A k \in Keys :
            Len(m_allocations[k].m_data) =
                IF m_allocations[k].m_policy = eAllocationPolicyProcessOnly
                THEN 0 ELSE m_allocations[k].m_size)
    /\ [][MallocStep /\ ret'.err = "none" =>
            m_allocations'[ret'.res].m_data =
                IF m_allocations'[ret'.res].m_policy = eAllocationPolicyProcessOnly
                THEN <<>> ELSE Zeros(m_allocations'[ret'.res].m_size)]_vars
    /\ [][(/\ ReadStep
           /\ ret.op = "Malloc" /\ ret.err = "none"
           /\ m_allocations[ret.res].m_policy = eAllocationPolicyHostOnly
           /\ ret.res \in Contained(ret'.addr, ret'.size)) =>
            ret'.err = "none" /\ ret'.data = Zeros(ret'.size)]_vars

\* C20 witness: a read of two bytes of a HostOnly allocation never written,
\* answered from its shadow, gave zeros
C20_Witness ==
    /\ ret.op = "ReadMemory" /\ ret.err = "none" /\ ret.data = Zeros(2)
    /\ ret.calls = NoCalls
    /\ writes = 0
    /\ \E k \in Contained(ret.addr, ret.size) :
          /\ m_allocations[k].m_policy = eAllocationPolicyHostOnly
          /\ m_allocations[k].m_data = Zeros(4)

\* The shadow of allocation k, after the step, holds bytes at address addr
ShadowHolds(k, addr, bytes) ==
    \A j \in 1..Len(bytes) : m_allocations'[k].m_data[addr - k + j] = bytes[j]

\* The process, after the step, holds bytes at address addr
RemoteHolds(addr, bytes) ==
    \A j \in 1..Len(bytes) :
        /\ addr + j - 1 \in DOMAIN remote_mem'
        /\ remote_mem'[addr + j - 1] = bytes[j]

\* C21: a WriteMemory on a range inside a Mirror allocation that succeeds
\* while the process exists leaves the bytes in the shadow at offset
\* addr - aligned_start and in the process at addr, through one
\* Process::WriteMemory; with no process it succeeds, leaves them in the
\* shadow alone and calls nothing.
C21_MirrorWrite ==
    [][WriteStep =>
        \A k \in Contained(ret'.addr, ret'.size) :
            m_allocations[k].m_policy = eAllocationPolicyMirror =>
                IF process_sp
                THEN /\ ret'.calls = <<WriteCall(ret'.addr, ret'.size)>>
                     /\ ret'.err = "none" =>
                            /\ ShadowHolds(k, ret'.addr, ret'.data)
                            /\ RemoteHolds(ret'.addr, ret'.data)
                            /\ \A j \in 1..ret'.size :
                                  m_allocations'[k].m_data[ret'.addr - k + j] =
                                      remote_mem'[ret'.addr + j - 1]
                ELSE /\ ret'.err = "none"
                     /\ ret'.calls = NoCalls
                     /\ ShadowHolds(k, ret'.addr, ret'.data)
                     /\ remote_mem' = remote_mem]_vars

\* C21 witness: two bytes written in the middle of a Mirror allocation are
\* in its shadow and in the process
C21_Witness ==
    /\ process_sp
    /\ ret.op = "WriteMemory" /\ ret.err = "none" /\ ret.data = <<2, 1>>
    /\ ret.calls # NoCalls
    /\ \E k \in Contained(ret.addr, ret.size) :
          /\ m_allocations[k].m_policy = eAllocationPolicyMirror
          /\ ret.addr = k + 2
          /\ m_allocations[k].m_data = <<0, 0, 2, 1>>
          /\ RemoteRead(ret.addr, 2) = <<2, 1>>

\* C22: a WriteMemory on a range that no live allocation encloses, one
\* that overlaps an allocation in part or lies across two adjacent
\* allocations included, changes no record and no shadow; with a process it
\* is handed to Process::WriteMemory, whose result is returned; with none it
\* fails with OutOfRange and calls nothing.
C22_WriteOutside ==
    [][(WriteStep /\ Contained(ret'.addr, ret'.size) = {}) =>
        /\ m_allocations' = m_allocations
        /\ IF process_sp
           THEN /\ ret'.calls = <<WriteCall(ret'.addr, ret'.size)>>
                /\ ret'.err \in {"none", "RemoteWriteFailed"}
                /\ ret'.err = "none" => RemoteHolds(ret'.addr, ret'.data)
                /\ ret'.err # "none" => remote_mem' = remote_mem
           ELSE /\ ret'.err = "OutOfRange"
                /\ ret'.calls = NoCalls
                /\ remote_mem' = remote_mem]_vars

\* C22 witness: two bytes were written across the allocations [0, 1) and
\* [1, 4), both with a shadow, and went to the process
C22_Witness ==
    /\ process_sp
    /\ Keys = {0, 1}
    /\ m_allocations[0].m_data = <<0>> /\ m_allocations[1].m_data = <<0, 0, 0>>
    /\ ret.op = "WriteMemory" /\ ret.addr = 0 /\ ret.data = <<2, 1>>
    /\ ret.err = "none" /\ ret.calls = <<WriteCall(0, 2)>>

\* C23: on a range inside a ProcessOnly allocation whose process has gone,
\* WriteMemory and ReadMemory succeed, change no record, call nothing on
\* the process, and ReadMemory leaves the caller's buffer as it was.
C23_ProcessOnlyOrphan ==
    [][((WriteStep \/ ReadStep) /\ ~process_sp) =>
        \A k \in Contained(ret'.addr, ret'.size) :
            m_allocations[k].m_policy = eAllocationPolicyProcessOnly =>
                /\ ret'.err = "none"
                /\ ret'.calls = NoCalls
                /\ UNCHANGED <<m_allocations, remote_allocs, remote_mem>>
                /\ ReadStep => ret'.data = Buffer(ret'.size)]_vars

\* C23 witness: a ReadMemory of two bytes inside a ProcessOnly allocation,
\* the process gone and the target still there, left the buffer alone
C23_Witness ==
    /\ ~process_sp /\ target_sp
    /\ ret.op = "ReadMemory" /\ ret.err = "none" /\ ret.calls = NoCalls
    /\ ret.data = Buffer(2)
    /\ writes > 0
    /\ \E k \in Contained(ret.addr, ret.size) :
          m_allocations[k].m_policy = eAllocationPolicyProcessOnly

GetAllocSizeStep == ret' # ret /\ ret'.op = "GetAllocSize"

\* The live allocations that hold the byte at addr
Holding(addr) == {k \in Keys : k <= addr /\ addr < k + m_allocations[k].m_size}

\* C24: GetAllocSize(addr) succeeds for every addr inside a live allocation
\* and gives the bytes from addr to the end of that allocation, whatever
\* the size variable held on entry; for an addr in no allocation it fails.
C24_GetAllocSize ==
    [][GetAllocSizeStep =>
        IF Holding(ret'.addr) # {}
        THEN /\ ret'.err = "none"
             /\ \E k \in Holding(ret'.addr) :
                   ret'.res = k + m_allocations[k].m_size - ret'.addr
        ELSE ret'.err # "none"]_vars

ViewStep == ret' # ret /\ ret'.op = "GetMemoryData"

\* The caller's extractor is as it was before the call
ViewKept ==
    /\ ret'.data = CallerView.data
    /\ ret'.order = CallerView.order
    /\ ret'.width = CallerView.width

\* C25: GetMemoryData(addr, size > 0) on a range inside a Mirror allocation
\* whose process is gone sets no error, leaves the caller's extractor as it
\* was, changes no record and calls nothing.
C25_MirrorViewOrphan ==
    [][(ViewStep /\ ret'.size > 0 /\ ~process_sp) =>
        \A k \in Contained(ret'.addr, ret'.size) :
            m_allocations[k].m_policy = eAllocationPolicyMirror =>
                /\ ret'.err = "none"
                /\ ViewKept
                /\ ret'.calls = NoCalls
                /\ m_allocations' = m_allocations]_vars

\* C25 witness: the shadow of a Mirror allocation holds bytes written to it,
\* the process is gone, and GetMemoryData on those bytes reported success
\* without giving a view
C25_Witness ==
    /\ ~process_sp
    /\ ret.op = "GetMemoryData" /\ ret.size = 2 /\ ret.err = "none"
    /\ ret.data = CallerView.data /\ ret.order = CallerView.order
    /\ \E k \in Contained(ret.addr, ret.size) :
          /\ m_allocations[k].m_policy = eAllocationPolicyMirror
          /\ written[k].asked = eAllocationPolicyMirror
          /\ ret.addr = k + 2
          /\ m_allocations[k].m_data = <<0, 0, 2, 1>>

ScalarReadStep == ret' # ret /\ ret'.op = "ReadScalarFromMemory"

\* The value of the scalar is below 2^(8w)
Fits(scalar, w) == \A i \in 1..(Len(scalar) - w) : scalar[i] = 0

SameValue(a, b) == ZeroExtend(a, MaxScalarSize) = ZeroExtend(b, MaxScalarSize)

\* A ReadScalarFromMemory that follows a successful WriteScalarToMemory of a
\* value that fits the width, at the same address inside an allocation, with
\* the same width of 1, 2, 4 or 8 and the same byte order
ScalarReadBack ==
    /\ ScalarReadStep
    /\ ret.op = "WriteScalarToMemory" /\ ret.err = "none"
    /\ ret'.addr = ret.addr /\ ret'.size = ret.size /\ ret'.order = ret.order
    /\ ret.size \in {1, 2, 4, 8}
    /\ Fits(ret.scalar, ret.size)
    /\ Contained(ret.addr, ret.size) # {}

\* The allocation is ProcessOnly and its process has gone
Orphan(k) == m_allocations[k].m_policy = eAllocationPolicyProcessOnly /\ ~process_sp

\* C26 as stated: written into an allocation of any policy, a scalar is read
\* back, unless the process refuses the read.
C26_ScalarRoundTrip ==
    [][(ScalarReadBack /\ ret'.err # "RemoteReadFailed") =>
            ret'.err = "none" /\ SameValue(ret'.scalar, ret.scalar)]_vars

\* C26 as the code has it: the scalar is read back from an allocation that
\* is HostOnly or Mirror, or ProcessOnly with its process, unless the
\* process refuses the read; from a ProcessOnly allocation whose process
\* has gone the read succeeds and gives 0, since the write stored nothing.
C26_ScalarRoundTripStored ==
    [][(ScalarReadBack /\ ret'.err # "RemoteReadFailed") =>
            /\ ret'.err = "none"
            /\ \A k \in Contained(ret.addr, ret.size) :
                  IF Orphan(k)
                  THEN ret'.scalar = Zeros(ret'.size)
                  ELSE SameValue(ret'.scalar, ret.scalar)]_vars

\* C26 witness: an eight-byte scalar was written in little-endian order to a
\* HostOnly allocation and read back
C26_Witness ==
    /\ ret.op = "ReadScalarFromMemory" /\ ret.err = "none"
    /\ ret.size = 8 /\ ret.order = eByteOrderLittle
    /\ ret.scalar = <<1, 2, 3, 4, 5, 6, 7, 8>>
    /\ \E k \in Keys :
          /\ k = ret.addr
          /\ m_allocations[k].m_policy = eAllocationPolicyHostOnly
          /\ m_allocations[k].m_data = <<8, 7, 6, 5, 4, 3, 2, 1>>

PointerWriteStep == ret' # ret /\ ret'.op = "WritePointerToMemory"
PointerReadStep == ret' # ret /\ ret'.op = "ReadPointerFromMemory"

\* C27 as stated: WritePointerToMemory and ReadPointerFromMemory work on
\* exactly GetAddressByteSize() bytes, whatever GetAddressByteSize()
\* returns, UINT32_MAX included.
C27_WidthAgreement ==
    [][(PointerWriteStep \/ PointerReadStep) => ret'.size = ret'.width]_vars

\* C27 as the code has it: with a process or a target the width is 4 or 8,
\* both calls work on exactly that many bytes, and a pointer that fits the
\* width, written to an allocation that stores it, is read back; with
\* neither, the width is UINT32_MAX, which WritePointerToMemory takes as
\* the eight bytes of its scalar, while ReadPointerFromMemory asks for
\* UINT32_MAX bytes and fails.
C27_PointerWidth ==
    [][/\ (PointerWriteStep \/ PointerReadStep) =>
            IF process_sp \/ target_sp
            THEN /\ ret'.width \in AddressByteSizes
                 /\ ret'.size = ret'.width
                 /\ Len(ret'.data) = ret'.width
                 /\ \A i \in 1..Len(ret'.calls) : ret'.calls[i].size = ret'.width
            ELSE /\ ret'.width = UINT32_MAX
                 /\ PointerWriteStep => ret'.size = Len(ret'.scalar)
                 /\ PointerReadStep =>
                        /\ ret'.size = UINT32_MAX
                        /\ ret'.err # "none"
                        /\ ret'.scalar = <<>>
       /\ (/\ PointerReadStep
           /\ ret.op = "WritePointerToMemory" /\ ret.err = "none"
           /\ ret'.addr = ret.addr /\ ret'.width = ret.width /\ ret'.order = ret.order
           /\ Fits(ret.scalar, ret.width)
           /\ ret'.err # "RemoteReadFailed"
           /\ \A k \in Contained(ret.addr, ret.size) : ~Orphan(k)) =>
            ret'.err = "none" /\ SameValue(ret'.scalar, ret.scalar)]_vars

\* C27 witness: the pointer 0xDEADBEEF, written little-endian at a width of
\* four bytes into a HostOnly allocation, was read back
C27_Witness ==
    /\ ret.op = "ReadPointerFromMemory" /\ ret.err = "none"
    /\ ret.width = 4 /\ ret.order = eByteOrderLittle
    /\ ret.scalar = <<222, 173, 190, 239>>
    /\ \E k \in Keys :
          /\ k = ret.addr
          /\ m_allocations[k].m_policy = eAllocationPolicyHostOnly
          /\ m_allocations[k].m_data = <<239, 190, 173, 222, 0, 0, 0, 0>>

ReadOnlyStep ==
    \/ ReadStep
    \/ ScalarReadStep
    \/ PointerReadStep
    \/ GetAllocSizeStep
    \/ ViewStep
    \/ IntersectsStep

\* every record there was at another address than addr is still there, as
\* it was
OthersKept(addr) ==
    \A k \in Keys \ {addr} :
        k \in DOMAIN m_allocations' /\ m_allocations'[k] = m_allocations[k]

\* C28 as stated: ReadMemory, ReadScalarFromMemory, ReadPointerFromMemory,
\* GetAllocSize, GetMemoryData and IntersectsAllocation leave the map as it
\* was, and a Malloc leaves every record at another address as it was.
C28_ReadsKeepRecords ==
    [][/\ ReadOnlyStep => m_allocations' = m_allocations
       /\ MallocStep => OthersKept(ret'.res)]_vars

\* C28 as the code has it: ReadMemory, ReadScalarFromMemory,
\* ReadPointerFromMemory, GetAllocSize and IntersectsAllocation leave the
\* map as it was; a Malloc leaves every record at another address as it
\* was; GetMemoryData leaves every record as it was except the shadow
\* bytes of a Mirror record, which, when the process exists and the call
\* succeeds, become what the process holds at the record's start.
C28_Frame ==
    [][/\ (ReadOnlyStep /\ ~ViewStep) => m_allocations' = m_allocations
       /\ MallocStep => OthersKept(ret'.res)
       /\ ViewStep =>
             /\ DOMAIN m_allocations' = Keys
             /\ \A k \in Keys :
                   /\ m_allocations'[k] =
                        [m_allocations[k] EXCEPT !.m_data = m_allocations'[k].m_data]
                   /\ m_allocations'[k].m_data # m_allocations[k].m_data =>
                        /\ m_allocations[k].m_policy = eAllocationPolicyMirror
                        /\ process_sp
                        /\ ret'.err = "none"
                        /\ k + m_allocations[k].m_size > ret'.addr
                        /\ m_allocations'[k].m_data =
                             RemoteRead(m_allocations[k].m_process_start,
                                        Len(m_allocations[k].m_data))]_vars

\* C28 witness: GetMemoryData has succeeded on a Mirror allocation that
\* nothing was written to, and its shadow, zeroed by Malloc, now holds what
\* the process had there
C28_Witness ==
    /\ ret.op = "GetMemoryData" /\ ret.err = "none"
    /\ writes = 0
    /\ \E k \in Keys :
          /\ m_allocations[k].m_policy = eAllocationPolicyMirror
          /\ k <= ret.addr /\ ret.addr < k + m_allocations[k].m_size
          /\ m_allocations[k].m_data = [j \in 1..m_allocations[k].m_size |-> Garbage]

\* the request the step's Malloc made of the process, if it made one
AsksRemote == MallocStep /\ ret'.calls # NoCalls
Asked == ret'.calls[1]
AllocFn(zero_memory) == IF zero_memory THEN "CallocateMemory" ELSE "AllocateMemory"

HostOnlyMallocStep == MallocStep /\ ret'.policy = eAllocationPolicyHostOnly

\* the address the host pseudo-heap gives: 0 in an empty map, otherwise the
\* end of the last allocation rounded up to a page
HeapAddress ==
    IF Keys = {} THEN 0
    ELSE alignTo(Wrap(Max(Keys) + m_allocations[Max(Keys)].m_size), PageSize)

\* C30 as stated: a HostOnly Malloc makes no call to the process, leaves the
\* process's allocations as they were, and returns the address of the host
\* pseudo-heap, aligned, whether or not the process can allocate.
C30_HostOnlyStaysHome ==
    [][HostOnlyMallocStep =>
        /\ ret'.calls = NoCalls
        /\ remote_allocs' = remote_allocs
        /\ ret'.err = "none" =>
              ret'.res = AlignedAddress(HeapAddress, ret'.alignment)]_vars

\* C30 as the code has it: a HostOnly Malloc always records a HostOnly
\* allocation with a zeroed shadow; without a process that can allocate it
\* makes no call and returns the aligned address of the host pseudo-heap;
\* with one, it calls AllocateMemory once, the process's allocations gain
\* the region, and the address returned is the aligned address the process
\* gave, or the call fails when the process gives none.
C30_HostOnlyMalloc ==
    [][HostOnlyMallocStep =>
        /\ ret'.err = "none" =>
              /\ ret'.res \in DOMAIN m_allocations'
              /\ m_allocations'[ret'.res].m_policy = eAllocationPolicyHostOnly
              /\ m_allocations'[ret'.res].m_data =
                    Zeros(AllocationSize(ret'.size, ret'.alignment))
        /\ IF process_sp /\ ret'.jit
           THEN /\ Len(ret'.calls) = 1
                /\ ret'.calls[1].fn = "AllocateMemory"
                /\ IF ret'.err = "none"
                   THEN /\ \E r \in remote_allocs' \ remote_allocs :
                              /\ remote_allocs' = remote_allocs \cup {r}
                              /\ m_allocations'[ret'.res].m_process_alloc = r.addr
                              /\ ret'.res = AlignedAddress(r.addr, ret'.alignment)
                   ELSE /\ ret'.err = "AddressSpaceFull"
                        /\ remote_allocs' = remote_allocs
                        /\ m_allocations' = m_allocations
           ELSE /\ ret'.calls = NoCalls
                /\ remote_allocs' = remote_allocs
                /\ ret'.err = "none"
                /\ ret'.res = AlignedAddress(HeapAddress, ret'.alignment)]_vars

\* C30 witness: a HostOnly Malloc with a process that can allocate has
\* returned an address the process gave, and the process holds the region
C30_Witness ==
    /\ ret.op = "Malloc" /\ ret.err = "none"
    /\ ret.policy = eAllocationPolicyHostOnly /\ ret.jit
    /\ ret.res \in Keys
    /\ m_allocations[ret.res].m_policy = eAllocationPolicyHostOnly
    /\ m_allocations[ret.res].m_process_alloc = 5
    /\ ret.res = 8
    /\ \E r \in remote_allocs : r.addr = 5

\* C31: for every allocation whose raw start the process allocated, the
\* interval [aligned start, aligned start + m_size) lies inside the span
\* [raw start, raw start + m_size) the process was asked for.
C31_SlackOnRemoteSide ==
    \A k \in Keys :
        OnRemote(k) =>
            /\ m_allocations[k].m_process_alloc <= m_allocations[k].m_process_start
            /\ m_allocations[k].m_process_start + m_allocations[k].m_size
                 <= m_allocations[k].m_process_alloc + m_allocations[k].m_size

\* the allocation ReadMemory, WriteMemory or GetMemoryData of the step found
Found == FindAllocation(ret'.addr, ret'.size)

\* C32: whenever ReadMemory finds an allocation for [addr, addr + size), the
\* offset addr - aligned start is not greater than the size of the
\* allocation, the read does not fail for it, and on a HostOnly allocation
\* the read fails neither for an empty shadow nor for a short one.
C32_DefensiveUnreachable ==
    [][(ReadStep /\ Found # End) =>
        /\ Wrap(ret'.addr - m_allocations[Found].m_process_start)
             <= m_allocations[Found].m_size
        /\ ret'.err # "OutOfRange"
        /\ m_allocations[Found].m_policy = eAllocationPolicyHostOnly =>
              ret'.err \notin {"EmptyShadow", "ShortShadow"}]_vars

\* C33: every DeallocateMemory call the map makes is for an address the
\* process allocated for the map and has not deallocated since.
C33_DeallocsOwnAllocs ==
    [][ret' # ret =>
        \A i \in 1..Len(ret'.calls) :
            ret'.calls[i].fn = "DeallocateMemory" =>
                \E s \in remote_allocs : s.addr = ret'.calls[i].addr]_vars

\* C34: every Malloc that succeeds adds one record to the map under a key
\* that was not there and leaves the records there were; and every span the
\* process holds for the map is the raw start of exactly one record.
C34_MallocAddsOne ==
    [][(MallocStep /\ ret'.err = "none") =>
        /\ ret'.res \notin Keys
        /\ DOMAIN m_allocations' = Keys \cup {ret'.res}
        /\ OthersKept(ret'.res)
        /\ \A s \in remote_allocs' :
              Cardinality({k \in DOMAIN m_allocations' :
                             m_allocations'[k].m_process_alloc = s.addr}) = 1]_vars

\* a step of WriteMemory, ReadMemory or GetMemoryData that finds an
\* allocation with a shadow for its range
ShadowStep ==
    /\ ret' # ret
    /\ ret'.op \in {"WriteMemory", "ReadMemory", "GetMemoryData"}
    /\ ret'.size > 0
    /\ Found # End
    /\ m_allocations[Found].m_data # <<>>

\* C35: whenever WriteMemory, ReadMemory or GetMemoryData goes to the shadow
\* of an allocation for a range [addr, addr + size) whose end addr + size
\* is an address, the offset addr - aligned start plus size is at most the
\* length of the shadow, and the call does not fault.
C35_CopiesStayInside ==
    [][(ShadowStep /\ ret'.addr + ret'.size < AddrSpace) =>
        /\ Wrap(ret'.addr - m_allocations[Found].m_process_start) + ret'.size
             <= Len(m_allocations[Found].m_data)
        /\ ~Overrun(m_allocations[Found], ret'.addr, ret'.size)
        /\ ret'.err # "Fault"]_vars

\* C35 witness: two bytes were written at offset 1 of a HostOnly shadow of
\* three bytes, up to its last byte
C35_Witness ==
    /\ ret.op = "WriteMemory" /\ ret.err = "none"
    /\ ret.addr = 1 /\ ret.data = <<2, 1>>
    /\ 0 \in Keys
    /\ m_allocations[0].m_policy = eAllocationPolicyHostOnly
    /\ m_allocations[0].m_data = <<0, 2, 1>>

\* C36: for a range [addr, addr + size) whose end addr + size wraps around,
\* FindAllocation finds no allocation, and WriteMemory and ReadMemory,
\* finding none, copy nothing out of or into a shadow.
C36_NoWrappedRange ==
    [][(/\ ret' # ret
        /\ ret'.op \in {"FindAllocation", "WriteMemory", "ReadMemory"}
        /\ ret'.addr + ret'.size >= AddrSpace) =>
        /\ Found = End
        /\ ret'.op = "FindAllocation" => ret'.res = End
        /\ ret'.err # "Fault"
        /\ m_allocations' = m_allocations]_vars

\* C37: a WriteMemory on a range inside a Mirror allocation, the process
\* existing and refusing the write, has called the process, returns its
\* error, and leaves the bytes in the shadow all the same.
C37_MirrorWriteNotAtomic ==
    [][(/\ WriteStep /\ ret'.op = "WriteMemory" /\ Found # End
        /\ m_allocations[Found].m_policy = eAllocationPolicyMirror
        /\ process_sp
        /\ ret'.err # "none") =>
            /\ ret'.err = "RemoteWriteFailed"
            /\ ret'.calls = <<WriteCall(ret'.addr, ret'.size)>>
            /\ ShadowHolds(Found, ret'.addr, ret'.data)
            /\ \A k \in Keys \ {Found} : m_allocations'[k] = m_allocations[k]]_vars

\* C37 witness: the process refused a WriteMemory of the byte 1 at the
\* start of a Mirror allocation; the shadow holds 1 there and the process
\* does not
C37_Witness ==
    /\ ret.op = "WriteMemory" /\ ret.err = "RemoteWriteFailed"
    /\ ret.data = <<1>>
    /\ process_sp
    /\ \E k \in Keys :
          /\ k = ret.addr
          /\ m_allocations[k].m_policy = eAllocationPolicyMirror
          /\ m_allocations[k].m_data[1] = 1
          /\ RemoteRead(k, 1) # <<1>>

====
